---- MODULE Spec2Model ----
(***************************************************************************)
(* Session handling of the adt-query client: the cookie jar (src/core.rs), *)
(* the security session with its user sessions (src/session.rs) and the    *)
(* dispatch protocol of the Client (src/client.rs, src/operation.rs).      *)
(*                                                                         *)
(* Text is modelled as a sequence of atoms: every delimiter the code looks *)
(* at ("=", ";", " ", "/") is an atom of its own, every other atom stands  *)
(* for a run of characters that holds no delimiter.  An Option is a        *)
(* sequence of length 0 (None) or 1 (Some).                                *)
(***************************************************************************)
EXTENDS Integers, Sequences, FiniteSets, TLC

\* ------------------------------------------------------------------ text

None == <<>>

Some(x) == <<x>>

\* s starts with pre
StartsWith(s, pre) == Len(pre) <= Len(s) /\ SubSeq(s, 1, Len(pre)) = pre

\* position of the first occurrence of pat in s at or after i, 0 when there is none
RECURSIVE MatchFrom(_, _, _)
MatchFrom(s, pat, i) ==
    IF i + Len(pat) - 1 > Len(s) THEN 0
    ELSE IF SubSeq(s, i, i + Len(pat) - 1) = pat THEN i
    ELSE MatchFrom(s, pat, i + 1)

FirstMatch(s, pat) == MatchFrom(s, pat, 1)

\* str::contains : needle occurs in hay as a contiguous run
Contains(hay, needle) == FirstMatch(hay, needle) # 0

\* str::split(pat) : the pieces between the occurrences of pat, left to right
RECURSIVE Split(_, _)
Split(s, pat) ==
    LET i == FirstMatch(s, pat)
    IN  IF i = 0
        THEN <<s>>
        ELSE <<SubSeq(s, 1, i - 1)>> \o Split(SubSeq(s, i + Len(pat), Len(s)), pat)

\* str::split_once("=") : None, or Some of the text before and after the first "="
SplitOnce(s) ==
    LET i == FirstMatch(s, <<"=">>)
    IN  IF i = 0
        THEN None
        ELSE Some([name |-> SubSeq(s, 1, i - 1), rest |-> SubSeq(s, i + 1, Len(s))])

\* str::replace(";", "")
RECURSIVE StripSemicolons(_)
StripSemicolons(s) ==
    IF s = <<>> THEN <<>>
    ELSE IF Head(s) = ";" THEN StripSemicolons(Tail(s))
    ELSE <<Head(s)>> \o StripSemicolons(Tail(s))

\* [String]::join(sep)
RECURSIVE Join(_, _)
Join(parts, sep) ==
    IF parts = <<>> THEN <<>>
    ELSE IF Len(parts) = 1 THEN parts[1]
    ELSE parts[1] \o sep \o Join(Tail(parts), sep)

\* ---------------------------------------------------------------- bounds

\* latest instant of the clock
MaxTime == 3

\* ---------------------------------------------------------------- Cookie

SESSIONID == <<"SAP_SESSIONID_">>

CONTEXT_ID == <<"sap-contextid">>

\* The atoms that NaiveDateTime::parse_from_str accepts for the cookie date
\* format, in the order of the instants they denote (DateAtoms[i] is instant i).
DateAtoms == <<"Tue, 01-Jan-1980 00:00:01 GMT", "date-2", "date-3", "date-4">>

ParseDate(v) ==
    IF Len(v) = 1 /\ \E i \in 1..Len(DateAtoms) : DateAtoms[i] = v[1]
    THEN Some(CHOOSE i \in 1..Len(DateAtoms) : DateAtoms[i] = v[1])
    ELSE None

ParseFailed == [ok |-> FALSE, cookie |-> <<>>]

\* The attribute loop of Cookie::parse over the pieces after the value.
RECURSIVE ParseAttributes(_, _)
ParseAttributes(result, pairs) ==
    IF pairs = <<>> THEN [ok |-> TRUE, cookie |-> result]
    ELSE
      LET Dated(date) ==
              IF date = None THEN ParseFailed
              ELSE ParseAttributes([result EXCEPT !.expires = date], Tail(pairs))
          Attribute(kv) ==
              IF kv = None THEN ParseFailed
              ELSE IF kv[1].name = <<"expires">>
              THEN Dated(ParseDate(kv[1].rest))
              ELSE IF kv[1].name = <<"path">>
              THEN ParseAttributes([result EXCEPT !.path = Some(StripSemicolons(kv[1].rest))],
                                   Tail(pairs))
              ELSE IF kv[1].name = <<"domain">>
              THEN ParseAttributes([result EXCEPT !.domain = Some(StripSemicolons(kv[1].rest))],
                                   Tail(pairs))
              ELSE ParseAttributes(result, Tail(pairs))
      IN  Attribute(SplitOnce(Head(pairs)))

\* Cookie::parse
Parse(cookie) ==
    LET Valued(name, pieces) ==
            ParseAttributes([name    |-> name,
                             value   |-> pieces[1],
                             expires |-> None,
                             path    |-> None,
                             domain  |-> None],
                            Tail(pieces))
        Pair(nd) ==
            IF nd = None THEN ParseFailed
            ELSE Valued(nd[1].name, Split(nd[1].rest, <<";", " ">>))
    IN  Pair(SplitOnce(cookie))

\* Cookie::as_cookie_pair
as_cookie_pair(c) == c.name \o <<"=">> \o c.value

\* mutant: the path of the cookie is not compared
MutAllowedIgnoresPath(c, dst) == c.domain = None \/ Contains(dst, c.domain[1])

\* Cookie::is_allowed_for_destination
is_allowed_for_destination(c, dst) ==
    /\ (c.domain = None \/ Contains(dst, c.domain[1]))
    /\ (c.path = None \/ Contains(dst, c.path[1]))

\* Cookie::expired at the instant t of the call
expired(c, t) == IF c.expires = None THEN FALSE ELSE c.expires[1] < t

\* ------------------------------------------------------------- CookieJar
\* A jar is the Vec<Cookie> of the struct; a jar operation that can panic
\* yields [jar, panicked].

\* mutant: only a cookie whose name is the pattern is found
MutFindExactName(jar, pattern) ==
    IF \E i \in 1..Len(jar) : jar[i].name = pattern
    THEN Some(jar[CHOOSE i \in 1..Len(jar) : jar[i].name = pattern])
    ELSE None

\* CookieJar::find : the first cookie whose name contains the pattern
find(jar, pattern) ==
    IF \E i \in 1..Len(jar) : Contains(jar[i].name, pattern)
    THEN Some(jar[CHOOSE i \in 1..Len(jar) :
                    /\ Contains(jar[i].name, pattern)
                    /\ \A j \in 1..(i - 1) : ~Contains(jar[j].name, pattern)])
    ELSE None

\* Vec::position(|c| c.name == name), 0 when there is none
Position(jar, name) ==
    IF \E i \in 1..Len(jar) : jar[i].name = name
    THEN CHOOSE i \in 1..Len(jar) :
            /\ jar[i].name = name
            /\ \A j \in 1..(i - 1) : jar[j].name # name
    ELSE 0

RemoveAt(jar, pos) == SubSeq(jar, 1, pos - 1) \o SubSeq(jar, pos + 1, Len(jar))

\* CookieJar::drop_cookie : the jar left, and the cookie removed (an Option)
drop_cookie(jar, name) ==
    LET Remove(pos) ==
            IF pos = 0 THEN [jar |-> jar, cookie |-> None]
            ELSE [jar |-> RemoveAt(jar, pos), cookie |-> Some(jar[pos])]
    IN  Remove(Position(jar, name))

\* CookieJar::take : remove and return the cookie of exactly this name
take(jar, name) == drop_cookie(jar, name)

\* mutant: a cookie of a name already stored is left as it was
MutStoreKeepsFirst(jar, cookie) ==
    IF \E i \in 1..Len(jar) : jar[i].name = cookie.name THEN jar
    ELSE Append(jar, cookie)

\* mutant: every live cookie is pushed, also when its name is stored
MutStoreAppends(jar, cookie) == Append(jar, cookie)

\* The store step of set_cookie for a parsed, live cookie.
Store(jar, cookie) ==
    LET Put(pos) == IF pos # 0 THEN [jar EXCEPT ![pos] = cookie] ELSE Append(jar, cookie)
    IN  Put(Position(jar, cookie.name))

\* mutant: an expired cookie is ignored instead of removing the stored one
MutSetCookieIgnoresExpired(jar, raw, t) ==
    LET Apply(p) ==
            IF ~p.ok THEN [jar |-> jar, panicked |-> TRUE]
            ELSE IF expired(p.cookie, t) THEN [jar |-> jar, panicked |-> FALSE]
            ELSE [jar |-> Store(jar, p.cookie), panicked |-> FALSE]
    IN  Apply(Parse(raw))

\* CookieJar::set_cookie at instant t; Cookie::parse(..).unwrap() panics on Err
set_cookie(jar, raw, t) ==
    LET Apply(p) ==
            IF ~p.ok THEN [jar |-> jar, panicked |-> TRUE]
            ELSE IF expired(p.cookie, t)
            THEN [jar |-> drop_cookie(jar, p.cookie.name).jar, panicked |-> FALSE]
            ELSE [jar |-> Store(jar, p.cookie), panicked |-> FALSE]
    IN  Apply(Parse(raw))

\* CookieJar::set_from_multiple_headers : for_each in encounter order; a
\* panic ends the iteration with the values before it applied.
RECURSIVE set_from_multiple_headers(_, _, _)
set_from_multiple_headers(jar, headers, t) ==
    IF headers = <<>> THEN [jar |-> jar, panicked |-> FALSE]
    ELSE
      LET Rest(r) ==
              IF r.panicked THEN r
              ELSE set_from_multiple_headers(r.jar, Tail(headers), t)
      IN  Rest(set_cookie(jar, Head(headers), t))

\* CookieJar::to_header
RECURSIVE AllowedPairs(_, _)
AllowedPairs(jar, dst) ==
    IF jar = <<>> THEN <<>>
    ELSE IF is_allowed_for_destination(Head(jar), dst)
    THEN <<as_cookie_pair(Head(jar))>> \o AllowedPairs(Tail(jar), dst)
    ELSE AllowedPairs(Tail(jar), dst)

to_header(jar, dst) == Join(AllowedPairs(jar, dst), <<";", " ">>)

\* ------------------------------------------------------ Set-Cookie values

SsoName == <<"MYSAPSSO2">>

SessName == <<"SAP_SESSIONID_", "A4H_001">>

UserCtxName == <<"sap-usercontext">>

Attr(k, v) == <<";", " ">> \o k \o <<"=">> \o v

\* "MYSAPSSO2=abc; path=/; domain=a;" (the shape of test_cookie_jar)
RawSso == SsoName \o <<"=", "abc">> \o Attr(<<"path">>, <<"/">>)
              \o Attr(<<"domain">>, <<"a">>) \o <<";">>

\* "MYSAPSSO2=abc123; path=/; domain=a; expires=Tue, 01-Jan-1980 00:00:01 GMT"
RawSsoExpired == SsoName \o <<"=", "abc123">> \o Attr(<<"path">>, <<"/">>)
                     \o Attr(<<"domain">>, <<"a">>)
                     \o Attr(<<"expires">>, <<DateAtoms[1]>>)

\* "SAP_SESSIONID_A4H_001=XYZ; path=/x"
RawSess == SessName \o <<"=", "XYZ">> \o Attr(<<"path">>, <<"/", "x">>)

\* "SAP_SESSIONID_A4H_001=XYZ2; expires=date-3; Max-Age=9"
RawSessDated == SessName \o <<"=", "XYZ2">> \o Attr(<<"expires">>, <<DateAtoms[3]>>)
                    \o Attr(<<"Max-Age">>, <<"9">>)

\* "sap-usercontext=en; domain=b"
RawUserCtx == UserCtxName \o <<"=", "en">> \o Attr(<<"domain">>, <<"b">>)

\* "garbage" : no "=" at all
RawNoEquals == <<"garbage">>

\* "sap-usercontext=de; path=/; secure" : an attribute without "="
RawBareAttr == UserCtxName \o <<"=", "de">> \o Attr(<<"path">>, <<"/">>)
                   \o <<";", " ", "secure">>

\* "MYSAPSSO2=abc; expires=tomorrow" : a date the format does not accept
RawBadDate == SsoName \o <<"=", "abc">> \o Attr(<<"expires">>, <<"tomorrow">>)

WellFormedRaws == {RawSso, RawSsoExpired, RawSess, RawSessDated, RawUserCtx}

MalformedRaws == {RawNoEquals, RawBareAttr, RawBadDate}

JarRaws == WellFormedRaws \cup MalformedRaws

JarNames == {SsoName, SessName, UserCtxName}

\* what callers look up: the names, and the prefix Cookie::SAP_SESSIONID
JarPatterns == JarNames \cup {SESSIONID}

\* "//a/x" and "//b/y"
Destinations == {<<"/", "/", "a", "/", "x">>, <<"/", "/", "b", "/", "y">>}

\* The batches of Set-Cookie values one response carries: a later value
\* overriding an earlier one, a tombstone after and before a live value of its
\* name, and a malformed value before, between and after well-formed ones.
Batches == {<<RawSess, RawSessDated>>, <<RawSessDated, RawSess>>,
            <<RawSso, RawSsoExpired>>, <<RawSsoExpired, RawSso>>,
            <<RawSso, RawNoEquals, RawSess>>, <<RawNoEquals, RawSess>>,
            <<RawUserCtx, RawSess, RawBadDate>>, <<RawSess, RawSso, RawUserCtx>>}

\* ------------------------------------------------------------------ state

VARIABLES
    cj,        \* the CookieJar under test
    cjNow,     \* Utc::now() of the jar's clock
    cjLast,    \* the last jar operation: its kind, argument, the jar before it
    cjRef,     \* history: per stored name, the last live value applied and when
    session,   \* Client::session : Option<SecuritySession>
    csrfToken, \* Session::csrf_token of the client StatelessQuery::query runs on
    initGuard, \* Client::session_init_guard : the task holding it, 0 when free
    sessLock,  \* the mutex of Client::session (of Session::cookies for a query) : the task
               \* holding it across an await, 0 when free
    counter,   \* CONTEXT_COUNTER
    reserved,  \* history: the ids create_context has returned, in the order of the calls
    pc,        \* per task: where it stands in its call
    op,        \* per task: the call it is in (kind, method, uri, ctx) and what it has seen
    req,       \* per task: the last request it handed to the transport
    result,    \* per task: how its last call ended
    sent,      \* history: requests handed to the transport
    basic,     \* history: requests that carried Authorization: Basic
    served,    \* history: answers (responses and failures) given to dispatches
    started,   \* history: dispatches started
    dropped,   \* history: drop_context calls made
    srvGood,   \* history: every response so far was a 2xx carrying a fresh session cookie
    response,  \* the http::Response<String> an Endpoint's decoder is handed
    decoded,   \* what the decoder returned for it
    contextMap, \* the Contexts a Contextualize session of endpoint.rs holds, by ContextId
    CONTEXT_COUNTER, \* the AtomicU32 in its full width, as two 16-bit halves
    calls,     \* history: the reservations made on it, counted without a width
    issued     \* history: what the last reservations returned, latest last

jarVars == <<cj, cjNow, cjLast, cjRef>>

decodeVars == <<response, decoded>>

counterVars == <<CONTEXT_COUNTER, calls, issued>>

nonCounterVars == <<session, csrfToken, initGuard, sessLock, counter, reserved, pc, op, req,
                      result, sent, basic, served, started, dropped, srvGood, response,
                      decoded, contextMap>>

clientVars == <<session, csrfToken, initGuard, sessLock, counter, reserved, pc, op, req, result,
                sent, basic, served, started, dropped, srvGood, response, decoded,
                contextMap, CONTEXT_COUNTER, calls, issued>>

vars == <<cj, cjNow, cjLast, cjRef, session, csrfToken, initGuard, sessLock, counter, reserved,
          pc, op, req, result, sent, basic, served, started, dropped, srvGood, response,
          decoded, contextMap, CONTEXT_COUNTER, calls, issued>>

\* ---------------------------------------------------- history of the jar
\* cjRef lists, in the order the names entered the jar, the most recent
\* Set-Cookie value of each name that was live at the instant it was applied,
\* and that instant.

RefPosition(ref, name) ==
    IF \E i \in 1..Len(ref) : ref[i].name = name
    THEN CHOOSE i \in 1..Len(ref) : ref[i].name = name
    ELSE 0

RefWithout(ref, name) == SelectSeq(ref, LAMBDA e : e.name # name)

RefApply(ref, raw, t) ==
    LET p == Parse(raw)
        e == [name |-> p.cookie.name, raw |-> raw, at |-> t]
    IN  IF ~p.ok THEN ref
        ELSE IF p.cookie.expires # None /\ p.cookie.expires[1] < t
        THEN RefWithout(ref, p.cookie.name)
        ELSE IF RefPosition(ref, p.cookie.name) # 0
        THEN [ref EXCEPT ![RefPosition(ref, p.cookie.name)] = e]
        ELSE Append(ref, e)

\* the values of a batch up to and including the first malformed one
RECURSIVE UpToMalformed(_)
UpToMalformed(headers) ==
    IF headers = <<>> THEN <<>>
    ELSE IF ~Parse(Head(headers)).ok THEN <<Head(headers)>>
    ELSE <<Head(headers)>> \o UpToMalformed(Tail(headers))

RECURSIVE RefApplyAll(_, _, _)
RefApplyAll(ref, headers, t) ==
    IF headers = <<>> THEN ref
    ELSE RefApplyAll(RefApply(ref, Head(headers), t), Tail(headers), t)

\* ----------------------------------------------------- jar specification

NoOp == [op |-> "none", arg |-> <<>>, before |-> <<>>, at |-> 0, panicked |-> FALSE,
         got |-> None]

JarInit ==
    /\ cj = <<>>
    /\ cjNow = 2
    /\ cjLast = NoOp
    /\ cjRef = <<>>

JarSetCookie(raw) ==
    LET r == set_cookie(cj, raw, cjNow)
    IN  /\ cj' = r.jar
        /\ cjLast' = [op |-> "set_cookie", arg |-> <<raw>>, before |-> cj, at |-> cjNow,
                      panicked |-> r.panicked, got |-> None]
        /\ cjRef' = RefApply(cjRef, raw, cjNow)
        /\ UNCHANGED <<cjNow, clientVars>>

JarSetMultiple(headers) ==
    LET r == set_from_multiple_headers(cj, headers, cjNow)
    IN  /\ cj' = r.jar
        /\ cjLast' = [op |-> "set_from_multiple_headers", arg |-> headers, before |-> cj,
                      at |-> cjNow, panicked |-> r.panicked, got |-> None]
        /\ cjRef' = RefApplyAll(cjRef, UpToMalformed(headers), cjNow)
        /\ UNCHANGED <<cjNow, clientVars>>

JarDropCookie(name) ==
    LET r == drop_cookie(cj, name)
    IN  /\ cj' = r.jar
        /\ cjLast' = [op |-> "drop_cookie", arg |-> <<name>>, before |-> cj, at |-> cjNow,
                      panicked |-> FALSE, got |-> r.cookie]
        /\ cjRef' = RefWithout(cjRef, name)
        /\ UNCHANGED <<cjNow, clientVars>>

JarTake(name) ==
    LET r == take(cj, name)
    IN  /\ cj' = r.jar
        /\ cjLast' = [op |-> "take", arg |-> <<name>>, before |-> cj, at |-> cjNow,
                      panicked |-> FALSE, got |-> r.cookie]
        /\ cjRef' = RefWithout(cjRef, name)
        /\ UNCHANGED <<cjNow, clientVars>>

JarFind(pattern) ==
    /\ cjLast' = [op |-> "find", arg |-> <<pattern>>, before |-> cj, at |-> cjNow,
                  panicked |-> FALSE, got |-> find(cj, pattern)]
    /\ UNCHANGED <<cj, cjRef, cjNow, clientVars>>

JarTick ==
    /\ cjNow < MaxTime
    /\ cjNow' = cjNow + 1
    /\ UNCHANGED <<cj, cjLast, cjRef, clientVars>>

JarNext ==
    \/ \E raw \in JarRaws : JarSetCookie(raw)
    \/ \E headers \in Batches : JarSetMultiple(headers)
    \/ \E name \in JarPatterns : JarDropCookie(name)
    \/ \E name \in JarPatterns : JarTake(name)
    \/ \E pattern \in JarPatterns : JarFind(pattern)
    \/ JarTick


\* ------------------------------------------------------- jar properties

LastRaw == cjLast.arg[Len(cjLast.arg)]

LastCookie == Parse(LastRaw).cookie

Named(jar, name) == SelectSeq(jar, LAMBDA c : c.name = name)

Without(jar, name) == SelectSeq(jar, LAMBDA c : c.name # name)

\* the last operation applied Set-Cookie values, and the last of them was a
\* well-formed value already expired at that instant
LastAppliedTombstone ==
    /\ cjLast.op \in {"set_cookie", "set_from_multiple_headers"}
    /\ ~cjLast.panicked
    /\ Parse(LastRaw).ok
    /\ LastCookie.expires # None
    /\ LastCookie.expires[1] < cjLast.at

\* C4: after a Set-Cookie value whose expires lies in the past is applied the
\* jar holds no cookie of that name, whether or not it held one before; a
\* single such set_cookie leaves every other cookie as it was; and no stored
\* cookie was already expired at the instant it was applied.
C4_ExpiryRemoval ==
    /\ LastAppliedTombstone => Named(cj, LastCookie.name) = <<>>
    /\ (LastAppliedTombstone /\ cjLast.op = "set_cookie")
          => cj = Without(cjLast.before, LastCookie.name)
    /\ \A i \in 1..Len(cj) :
          \E j \in 1..Len(cjRef) :
              /\ cjRef[j].name = cj[i].name
              /\ cj[i].expires = Parse(cjRef[j].raw).cookie.expires
              /\ (cj[i].expires = None \/ cj[i].expires[1] >= cjRef[j].at)

\* a tombstone was applied to a jar that held a live cookie of its name and
\* another cookie besides
C4_Witness ==
    /\ LastAppliedTombstone
    /\ cjLast.op = "set_cookie"
    /\ Named(cjLast.before, LastCookie.name) # <<>>
    /\ cj # <<>>

\* C5: the jar holds at most one cookie per name, and the value stored for a
\* name is that of the most recently applied Set-Cookie of that name that was
\* not expired (within a batch: the later value of a name wins).
C5_OnePerNameLastWins ==
    /\ \A i, j \in 1..Len(cj) : cj[i].name = cj[j].name => i = j
    /\ Len(cj) = Len(cjRef)
    /\ \A i \in 1..Len(cj) :
          \E j \in 1..Len(cjRef) :
              /\ cjRef[j].name = cj[i].name
              /\ cj[i].value = Parse(cjRef[j].raw).cookie.value

\* a batch carried two live values of one name and the later one is stored
C5_Witness ==
    /\ cjLast.op = "set_from_multiple_headers"
    /\ cjLast.arg = <<RawSess, RawSessDated>>
    /\ Named(cjLast.before, SessName) # <<>>
    /\ Named(cj, SessName) # <<>>
    /\ Named(cj, SessName)[1].value = <<"XYZ2">>

\* the jar before the last set_cookie is what one application of the same
\* value to an empty jar gives
AppliedOnceBefore ==
    /\ cjLast.op = "set_cookie"
    /\ Parse(LastRaw).ok
    /\ cjLast.before = set_cookie(<<>>, LastRaw, cjLast.at).jar

\* C6: applying a Set-Cookie value a second time to the jar that one
\* application to the empty jar gave leaves the jar exactly as it was (same
\* cookies, same order), for live and for expired values.
C6_ParseIdempotence ==
    AppliedOnceBefore => (~cjLast.panicked /\ cj = cjLast.before)

\* a live value was applied a second time to the one-cookie jar it had made
C6_Witness ==
    /\ AppliedOnceBefore
    /\ Len(cjLast.before) = 1
    /\ LastRaw = RawSess

\* the claim's condition for a cookie to be sent to a destination
Qualifies(c, dst) ==
    /\ (c.domain # None => Contains(dst, c.domain[1]))
    /\ (c.path # None => Contains(dst, c.path[1]))

\* name=value of the qualifying cookies, in the order their names entered the jar
RECURSIVE ExpectedPairs(_, _, _)
ExpectedPairs(ref, jar, dst) ==
    IF ref = <<>> THEN <<>>
    ELSE
      LET cs == Named(jar, Head(ref).name)
      IN  IF cs # <<>> /\ Qualifies(cs[1], dst)
          THEN <<cs[1].name \o <<"=">> \o cs[1].value>> \o ExpectedPairs(Tail(ref), jar, dst)
          ELSE ExpectedPairs(Tail(ref), jar, dst)

HeaderPairs(h) == IF h = <<>> THEN <<>> ELSE Split(h, <<";", " ">>)

\* C7: to_header(destination) is the name=value pairs of exactly the stored
\* cookies whose domain and path (where set) occur in the destination, joined
\* with "; " in the order the cookies entered the jar, and the empty string
\* when no stored cookie qualifies.
C7_ToHeader ==
    \A dst \in Destinations :
        /\ HeaderPairs(to_header(cj, dst)) = ExpectedPairs(cjRef, cj, dst)
        /\ (\A i \in 1..Len(cj) : ~Qualifies(cj[i], dst)) => to_header(cj, dst) = <<>>

\* three cookies are stored; two of them qualify for "//a/x", one does not
C7_Witness ==
    /\ Len(cj) = 3
    /\ Len(HeaderPairs(to_header(cj, <<"/", "/", "a", "/", "x">>))) = 2
    /\ to_header(cj, <<"/", "/", "b", "/", "y">>) # <<>>

\* ------------------------------------------------------- SecuritySession
\* A session is [cookies, csrf_token, contexts]; contexts maps a
\* UserSessionId to an Option of its sap-contextid cookie (None: no record).
\* A response's headers are [set_cookie, csrf]: the Set-Cookie values in
\* order and an Option of the x-csrf-token value.

\* number of context handles a run reserves
MaxCtx == 2

CtxIds == 1..MaxCtx

NoContexts == [id \in CtxIds |-> None]

\* mutant: the cookie is written to every record the map holds
MutBindEveryRecord(contexts, id, cookie) ==
    [i \in CtxIds |-> IF i = id \/ contexts[i] # None THEN Some(cookie) ELSE contexts[i]]

\* get_mut(&id) -> update(cookie), else insert(id, UserSession::new(id, cookie))
BindContext(contexts, id, cookie) == [contexts EXCEPT ![id] = Some(cookie)]

\* a header value with a byte beyond visible ASCII: a legal HeaderValue
OpaqueToken == <<"t", "0x80">>

\* HeaderValue::to_str().ok() : the text of a header value, if it is all
\* visible ASCII
to_str(value) ==
    IF \E i \in 1..Len(value) : value[i] = "0x80" THEN None ELSE Some(value)

\* headers.get("x-csrf-token") ... to_str().ok().map(to_owned) : the token a
\* header yields
header_token(csrf) == IF csrf = None THEN None ELSE to_str(csrf[1])

\* mutant: the contextid cookie is left in the jar and no record is seeded
MutCreateKeepsContextId(headers, ctx, t) ==
    LET Filled(r) ==
            IF r.panicked THEN [session |-> None, panicked |-> TRUE]
            ELSE [session |-> Some([cookies |-> r.jar,
                                    csrf_token |-> header_token(headers.csrf),
                                    contexts |-> NoContexts]),
                  panicked |-> FALSE]
    IN  Filled(set_from_multiple_headers(<<>>, headers.set_cookie, t))

\* SecuritySession::create_from_headers; ctx is an Option of a UserSessionId.
\* The jar is a local of the function: a panic leaves no session behind.
create_from_headers(headers, ctx, t) ==
    LET New(tk) ==
            [session |-> Some([cookies    |-> tk.jar,
                               csrf_token |-> header_token(headers.csrf),
                               contexts   |-> IF ctx # None /\ tk.cookie # None
                                              THEN BindContext(NoContexts, ctx[1], tk.cookie[1])
                                              ELSE NoContexts]),
             panicked |-> FALSE]
        Filled(r) ==
            IF r.panicked THEN [session |-> None, panicked |-> TRUE]
            ELSE New(take(r.jar, CONTEXT_ID))
    IN  Filled(set_from_multiple_headers(<<>>, headers.set_cookie, t))

\* SecuritySession::update_from_headers on the session s (mutated in place:
\* what was written before a panic stays written)
update_from_headers(s, headers, ctx, t) ==
    LET Bound(s1, tk) ==
            [session |-> Some([s1 EXCEPT
                                 !.cookies = tk.jar,
                                 !.contexts = IF ctx # None /\ tk.cookie # None
                                              THEN BindContext(@, ctx[1], tk.cookie[1])
                                              ELSE @]),
             panicked |-> FALSE]
        Filled(s1, r) ==
            IF r.panicked
            THEN [session |-> Some([s1 EXCEPT !.cookies = r.jar]), panicked |-> TRUE]
            ELSE Bound(s1, take(r.jar, CONTEXT_ID))
    IN  Filled(IF headers.csrf # None
               THEN [s EXCEPT !.csrf_token = header_token(headers.csrf)] ELSE s,
               set_from_multiple_headers(s.cookies, headers.set_cookie, t))

\* SecuritySession::session_id
session_id(s) ==
    LET Value(c) == IF c = None THEN None ELSE Some(c[1].value)
    IN  Value(find(s.cookies, SESSIONID))

\* SecuritySession::stateless_cookies
stateless_cookies(s, destination) == to_header(s.cookies, destination)

\* SecuritySession::stateful_cookies
stateful_cookies(s, ctx, destination) ==
    to_header(s.cookies, destination)
        \o (IF s.contexts[ctx] # None THEN as_cookie_pair(s.contexts[ctx][1]) ELSE <<>>)

\* mutant: the record is removed together with every other record
MutDropClearsContexts(s, id) ==
    [session |-> [s EXCEPT !.contexts = NoContexts], removed |-> s.contexts[id]]

\* mutant: the record is returned but stays in the map
MutDropKeepsRecord(s, id) == [session |-> s, removed |-> s.contexts[id]]

\* SecuritySession::drop_user_session : the session left and the record removed
drop_user_session(s, id) ==
    [session |-> [s EXCEPT !.contexts[id] = None], removed |-> s.contexts[id]]

\* SecuritySession::has_csrf_token
has_csrf_token(s) == s.csrf_token # None

\* ---------------------------------------------------------------- Client

\* number of concurrent callers of the Client
NumTasks == 2

\* number of dispatches a run starts
MaxOps == 2

\* number of drop_context calls a run makes
MaxDrops == 2

Tasks == 1..NumTasks

Methods == {"GET", "POST", "PUT"}

\* "//a/x" : the URI of an operation of the system (every cookie the server
\* of this model sets has path=/, so a second URI would be treated alike)
Uris == {<<"/", "/", "a", "/", "x">>}

\* server_url.join("/sap/bc/adt") of drop_context, "//a/"
DropUri == <<"/", "/", "a", "/">>

\* ---- what the server can answer.  The n-th answer of a run carries values
\* no other answer carries.

SessRaw(n) == SessName \o <<"=", "s", ToString(n)>> \o Attr(<<"path">>, <<"/">>)

CtxRaw(n) == CONTEXT_ID \o <<"=", "c", ToString(n)>> \o Attr(<<"path">>, <<"/">>)

Token(n) == <<"t", ToString(n)>>

Answer(status, cookies, csrf) ==
    [failed |-> FALSE, status |-> status,
     headers |-> [set_cookie |-> cookies, csrf |-> csrf]]

NoAnswer == Answer(0, <<>>, None)

TransportFailure ==
    [failed |-> TRUE, status |-> 0, headers |-> [set_cookie |-> <<>>, csrf |-> None]]

Answers(n) ==
    { Answer(200, <<SessRaw(n), CtxRaw(n)>>, Some(Token(n))),
      Answer(200, <<>>, None),
      Answer(200, <<>>, Some(Token(n))),
      Answer(200, <<CtxRaw(n)>>, None),
      Answer(200, <<SessRaw(n), CtxRaw(n), RawNoEquals>>, Some(Token(n))),
      Answer(401, <<SessRaw(n)>>, Some(Token(n))),
      TransportFailure }

Malformed(r) == \E i \in 1..Len(r.headers.set_cookie) : ~Parse(r.headers.set_cookie[i]).ok

\* the answer sets a live session-id cookie and nothing the client cannot parse
SetsSession(r, t) ==
    /\ ~r.failed
    /\ ~Malformed(r)
    /\ \E i \in 1..Len(r.headers.set_cookie) :
          LET c == Parse(r.headers.set_cookie[i]).cookie
          IN  Contains(c.name, SESSIONID) /\ ~(c.expires # None /\ c.expires[1] < t)

\* ---- requests

NoRequest == [method |-> "none", uri |-> <<>>, sessiontype |-> "", cookie |-> None,
              csrf |-> <<>>, auth |-> FALSE, body |-> ""]

\* mutant: the credentials are attached whether or not a session exists
MutHeadersAlwaysBasic(sess, sessiontype, cookies) ==
    [sessiontype |-> sessiontype, cookie |-> None, csrf |-> <<"fetch">>, auth |-> TRUE]

\* the headers add_stateless_headers / add_stateful_headers put on a request
SessionHeaders(sess, sessiontype, cookies) ==
    IF sess # None
    THEN [sessiontype |-> sessiontype, cookie |-> Some(cookies),
          csrf |-> IF sess[1].csrf_token # None THEN sess[1].csrf_token[1] ELSE <<"fetch">>,
          auth |-> FALSE]
    ELSE [sessiontype |-> sessiontype, cookie |-> None, csrf |-> <<"fetch">>, auth |-> TRUE]

MakeRequest(method, uri, body, h) ==
    [method |-> method, uri |-> uri, sessiontype |-> h.sessiontype, cookie |-> h.cookie,
     csrf |-> h.csrf, auth |-> h.auth, body |-> body]

\* Client::add_stateless_headers
add_stateless_headers(sess, method, uri, body) ==
    MakeRequest(method, uri, body,
        SessionHeaders(sess, "stateless",
                       IF sess # None THEN stateless_cookies(sess[1], uri) ELSE <<>>))

\* Client::add_stateful_headers
add_stateful_headers(sess, method, uri, body, ctx) ==
    MakeRequest(method, uri, body,
        SessionHeaders(sess, "stateful",
                       IF sess # None THEN stateful_cookies(sess[1], ctx, uri) ELSE <<>>))

\* Client::csrf_prefetch_required
csrf_prefetch_required(sess, method) ==
    method = "POST" /\ (sess = None \/ ~has_csrf_token(sess[1]))

\* mutant: the GET is prepared with the session type of the dispatch it serves
MutPrefetchAsStateful(sess, uri) ==
    MakeRequest("GET", uri, "",
        SessionHeaders(sess, "stateful",
                       IF sess # None THEN stateless_cookies(sess[1], uri) ELSE <<>>))

\* clone_as_csrf_request + add_stateless_headers + String::new() of prefetch_csrf_token
prefetch_request(sess, uri) == add_stateless_headers(sess, "GET", uri, "")

\* mutant: a response without Set-Cookie is merged like any other
MutMergesWithoutSetCookie(sess, headers, ctx, t) ==
    IF sess # None THEN update_from_headers(sess[1], headers, ctx, t)
    ELSE create_from_headers(headers, ctx, t)

\* Client::update_from_response on the Option sess
update_from_response(sess, headers, ctx, t) ==
    IF headers.set_cookie = <<>> THEN [session |-> sess, panicked |-> FALSE]
    ELSE IF sess # None THEN update_from_headers(sess[1], headers, ctx, t)
    ELSE create_from_headers(headers, ctx, t)

\* TryFrom<Response<String>> for Success<T> : how a dispatch ends for a status
Decode(status) == IF status = 200 THEN "ok" ELSE "bad_status"

\* the request Client::drop_context sends for the record it removed
drop_request(s, removed) ==
    [method |-> "POST", uri |-> DropUri, sessiontype |-> "stateless",
     cookie |-> Some(stateless_cookies(s, DropUri) \o as_cookie_pair(removed)),
     csrf |-> <<>>, auth |-> FALSE, body |-> ""]

\* ---- the calls, step by step

\* A call in progress: what was asked, and what has happened to it so far.
\* fresh: no session existed when it started; unknown: no CSRF token was
\* known when it started; prefetch, token: the GET it sent first and the token
\* that GET's response returned; loaded: the token build_request read; answer:
\* the response whose Set-Cookie values it has yet to apply; seen401, seenBad: a
\* response of it had status
\* 401, a malformed Set-Cookie value; after401: it sent a request after a 401;
\* published401: a 401 response to it created the session; siblings: the
\* session cookie that came with a malformed value was stored.
NoCall == [kind |-> "none", method |-> "", uri |-> <<>>, ctx |-> 0, body |-> "",
           fresh |-> FALSE, unknown |-> FALSE, prefetch |-> NoRequest, token |-> None,
           seen401 |-> FALSE, after401 |-> FALSE, published401 |-> FALSE,
           seenBad |-> FALSE, siblings |-> TRUE, loaded |-> None, answer |-> NoAnswer]

\* how a call ended, and what it saw on the way
Outcome(call, outcome, value) ==
    [kind |-> call.kind, outcome |-> outcome, value |-> value, fresh |-> call.fresh,
     seen401 |-> call.seen401, after401 |-> call.after401,
     published401 |-> call.published401, seenBad |-> call.seenBad,
     siblings |-> call.siblings]

NoResult == Outcome(NoCall, "", FALSE)

\* ---- decoding of a response by the Endpoint's Response type

Statuses == {200, 201, 204, 304, 401, 404, 500}

\* bodies: none, a document serde_xml_rs reads, and one it does not
Bodies == {"", "<program/>", "junk"}

ETags == {None, Some("e1")}

\* the http::Response<String> values the transport can hand back
Responses ==
    {[status |-> st, etag |-> e, body |-> b] : st \in Statuses, e \in ETags, b \in Bodies}

NoResponse == [status |-> 0, etag |-> None, body |-> ""]

NotDecoded == [into |-> "", variant |-> "", response |-> NoResponse]

\* DeserializeResponse::deserialize_response / serde_xml_rs::from_str
deserialize_response(body) == IF body = "<program/>" THEN Some("program") ELSE None

\* the decoder's result for a 200 : the parts of the response around the
\* deserialized body, or the ParseError of the body
FromParts(variant, value, body) ==
    IF body = None
    THEN [variant |-> "ParseError", response |-> NoResponse]
    ELSE [variant |-> variant, response |-> [value EXCEPT !.body = body[1]]]

\* mutant: 304 is not told apart from the other statuses
MutNotModifiedIsBadStatus(value) ==
    IF value.status = 200
    THEN FromParts("Modified", value, deserialize_response(value.body))
    ELSE [variant |-> "BadStatusCode", response |-> value]

\* TryFrom<http::Response<String>> for CacheControlled<T>
try_from_CacheControlled(value) ==
    IF value.status = 304
    THEN [variant |-> "NotModified", response |-> [value EXCEPT !.body = "()"]]
    ELSE IF value.status = 200
    THEN FromParts("Modified", value, deserialize_response(value.body))
    ELSE [variant |-> "BadStatusCode", response |-> value]

\* TryFrom<http::Response<String>> for Success<T>
try_from_Success(value) ==
    IF value.status = 200
    THEN FromParts("Success", value, deserialize_response(value.body))
    ELSE [variant |-> "BadStatusCode", response |-> value]

\* a call is taken by the first caller that is free
FirstIdle(t) == pc[t] = "idle" /\ \A u \in Tasks : u < t => pc[u] # "idle"

ClientInit ==
    /\ session = None
    /\ csrfToken = None
    /\ initGuard = 0
    /\ sessLock = 0
    /\ counter = 0
    /\ reserved = <<>>
    /\ pc = [t \in Tasks |-> "idle"]
    /\ op = [t \in Tasks |-> NoCall]
    /\ req = [t \in Tasks |-> NoRequest]
    /\ result = [t \in Tasks |-> NoResult]
    /\ sent = 0
    /\ basic = 0
    /\ served = 0
    /\ started = 0
    /\ dropped = 0
    /\ srvGood = TRUE
    /\ response = NoResponse
    /\ decoded = NotDecoded
    /\ contextMap = NoContexts

\* mutant: the lock is handed out while another caller holds it
MutGuardAlwaysFree(g) == TRUE

\* tokio Mutex::lock of session_init_guard resolves only when nobody holds it
GuardFree(g) == g = 0

\* mutant: the guard stays with the call that has ended
MutGuardKept(t) == initGuard

\* MutexGuard of session_init_guard, dropped when the frame of the call ends
Released(t) == IF initGuard = t THEN 0 ELSE initGuard

Transmit(t, r) ==
    /\ req' = [req EXCEPT ![t] = r]
    /\ sent' = sent + 1
    /\ basic' = IF r.auth THEN basic + 1 ELSE basic

\* mutant: the addition is lost, the counter keeps the value it had
MutFetchAddLosesUpdate(c) == [before |-> c, now |-> c]

\* AtomicU32::fetch_add(1, SeqCst) : one indivisible step that returns the value
\* before it and leaves the sum.  The counter has 32 bits and wraps after 2^32
\* additions; MaxCtx keeps the runs of this model far below that.
fetch_add(c) == [before |-> c, now |-> c + 1]

\* UserSessionId::next / Client::create_context : the id a call returns
next(c) == fetch_add(c).before + 1

\* UserSessionId::next / Client::create_context
Reserve ==
    /\ counter < MaxCtx
    /\ counter' = fetch_add(counter).now
    /\ reserved' = Append(reserved, next(counter))
    /\ UNCHANGED <<jarVars, decodeVars, contextMap, counterVars, csrfToken, session, initGuard, sessLock, pc, op, req, result,
                   sent, basic, served, started, dropped, srvGood>>

\* dispatch_stateless / dispatch_stateful is called; session_init_guard takes
\* its first look at the session
\* mutant: every dispatch goes for the init guard
MutAlwaysTakesGuard(sess) == "guard"

\* session_init_guard : the first look; with a session the guard is not touched
first_look(sess) == IF sess # None THEN "check" ELSE "guard"

Start(t, kind, method, uri, ctx) ==
    /\ FirstIdle(t)
    /\ started < MaxOps
    /\ sessLock = 0
    /\ started' = started + 1
    /\ op' = [op EXCEPT ![t] =
                [NoCall EXCEPT !.kind = kind, !.method = method, !.uri = uri, !.ctx = ctx,
                               !.body = IF method = "GET" THEN "" ELSE "payload",
                               !.fresh = (session = None),
                               !.unknown = (session = None \/ ~has_csrf_token(session[1]))]]
    /\ pc' = [pc EXCEPT ![t] = first_look(session)]
    /\ UNCHANGED <<jarVars, decodeVars, contextMap, counterVars, csrfToken, session, initGuard, sessLock, counter, reserved, req, result,
                   sent, basic, served, dropped, srvGood>>

\* session_init_guard : self.session_init_guard.lock().await
AcquireGuard(t) ==
    /\ pc[t] = "guard"
    /\ GuardFree(initGuard)
    /\ initGuard' = t
    /\ pc' = [pc EXCEPT ![t] = "recheck"]
    /\ UNCHANGED <<jarVars, decodeVars, contextMap, counterVars, csrfToken, session, sessLock, counter, reserved, op, req, result,
                   sent, basic, served, started, dropped, srvGood>>

\* mutant: the guard is kept whatever the second look finds
MutRecheckKeepsGuard(sess, g) == g

\* session_init_guard : Some(guard) if the session is still none, else drop(guard)
session_init_guard(sess, g) == IF sess = None THEN g ELSE 0

\* session_init_guard : the second look, with the guard held
Recheck(t) ==
    /\ pc[t] = "recheck"
    /\ sessLock = 0
    /\ initGuard' = session_init_guard(session, initGuard)
    /\ pc' = [pc EXCEPT ![t] = "check"]
    /\ UNCHANGED <<jarVars, decodeVars, contextMap, counterVars, csrfToken, session, sessLock, counter, reserved, op, req, result,
                   sent, basic, served, started, dropped, srvGood>>

\* csrf_prefetch_required
PrefetchCheck(t) ==
    /\ pc[t] = "check"
    /\ sessLock = 0
    /\ pc' = [pc EXCEPT ![t] = IF csrf_prefetch_required(session, op[t].method)
                               THEN "prefetch" ELSE "send"]
    /\ UNCHANGED <<jarVars, decodeVars, contextMap, counterVars, csrfToken, session, initGuard, sessLock, counter, reserved, op, req, result,
                   sent, basic, served, started, dropped, srvGood>>

\* prefetch_csrf_token : the GET goes to the transport
SendPrefetch(t) ==
    /\ pc[t] = "prefetch"
    /\ sessLock = 0
    /\ LET Out(r) == Transmit(t, r) /\ op' = [op EXCEPT ![t].prefetch = r]
       IN  Out(prefetch_request(session, op[t].uri))
    /\ pc' = [pc EXCEPT ![t] = "prefetch_wait"]
    /\ UNCHANGED <<jarVars, decodeVars, contextMap, counterVars, csrfToken, session, initGuard, sessLock, counter, reserved, result,
                   served, started, dropped, srvGood>>

\* the call of task t ends: the init guard is dropped with the call's frame
Finish(t, outcome, call) ==
    /\ pc' = [pc EXCEPT ![t] = "idle"]
    /\ initGuard' = Released(t)
    /\ result' = [result EXCEPT ![t] = Outcome(call, outcome, FALSE)]
    /\ req' = [req EXCEPT ![t] = NoRequest]
    /\ op' = [op EXCEPT ![t] = NoCall]

\* the session holds the session cookie of the n-th answer
HoldsSessionOf(sess, n) ==
    /\ sess # None
    /\ session_id(sess[1]) = Some(<<"s", ToString(n)>>)

\* the call, with what it has seen of the answer r (the n-th of the run) that
\* took the session from before to after
Seen(call, r, n, before, after) ==
    [call EXCEPT !.seen401 = @ \/ r.status = 401,
                 !.published401 = @ \/ (r.status = 401 /\ before = None /\ after # None),
                 !.seenBad = @ \/ Malformed(r),
                 !.siblings = @ /\ (Malformed(r) => HoldsSessionOf(after, n))]

\* prefetch_csrf_token : the transport returns and the response is merged
AnswerPrefetch(t, r) ==
    /\ pc[t] = "prefetch_wait"
    /\ served' = served + 1
    /\ srvGood' = (srvGood /\ SetsSession(r, cjNow))
    /\ IF r.failed
       THEN /\ Finish(t, "dispatch_error", op[t])
            /\ UNCHANGED session
       ELSE LET Noted(m, call) ==
                    /\ session' = m.session
                    /\ IF m.panicked
                       THEN Finish(t, "panicked", call)
                       ELSE /\ pc' = [pc EXCEPT ![t] = "send"]
                            /\ op' = [op EXCEPT ![t] = call]
                            /\ UNCHANGED <<initGuard, result, req>>
                Merged(m) ==
                    Noted(m, [Seen(op[t], r, served + 1, session, m.session)
                                EXCEPT !.token = r.headers.csrf])
            IN  /\ (r.headers.set_cookie # <<>> => sessLock = 0)
                /\ Merged(update_from_response(session, r.headers, None, cjNow))
    /\ UNCHANGED <<jarVars, decodeVars, contextMap, counterVars, csrfToken, sessLock, counter, reserved, sent, basic, started, dropped>>

\* add_stateless_headers / add_stateful_headers, and the request goes out
Send(t) ==
    /\ pc[t] = "send"
    /\ sessLock = 0
    /\ Transmit(t, IF op[t].kind = "stateful"
                   THEN add_stateful_headers(session, op[t].method, op[t].uri,
                                             op[t].body, op[t].ctx)
                   ELSE add_stateless_headers(session, op[t].method, op[t].uri,
                                              op[t].body))
    /\ op' = [op EXCEPT ![t].after401 = op[t].seen401]
    /\ pc' = [pc EXCEPT ![t] = "wait"]
    /\ UNCHANGED <<jarVars, decodeVars, contextMap, counterVars, csrfToken, session, initGuard, sessLock, counter, reserved, result,
                   served, started, dropped, srvGood>>

\* the transport returns, the response is merged and decoded, the call ends
AnswerRequest(t, r) ==
    /\ pc[t] = "wait"
    /\ served' = served + 1
    /\ srvGood' = (srvGood /\ SetsSession(r, cjNow))
    /\ IF r.failed
       THEN /\ Finish(t, "dispatch_error", op[t])
            /\ UNCHANGED session
       ELSE LET Merged(m) ==
                    /\ session' = m.session
                    /\ Finish(t, IF m.panicked THEN "panicked" ELSE Decode(r.status),
                              Seen(op[t], r, served + 1, session, m.session))
            IN  /\ (r.headers.set_cookie # <<>> => sessLock = 0)
                /\ Merged(update_from_response(session, r.headers,
                              IF op[t].kind = "stateful" THEN Some(op[t].ctx) ELSE None,
                              cjNow))
    /\ UNCHANGED <<jarVars, decodeVars, contextMap, counterVars, csrfToken, sessLock, counter, reserved, sent, basic, started, dropped>>

\* mutant: the record of the id is never found
MutHoldsNoRecord(sess, id) == FALSE

\* drop_context : a session exists and its map holds a record for the id
holds_record(sess, id) == sess # None /\ sess[1].contexts[id] # None

\* Client::drop_context up to its request: the session is locked, the record
\* removed, and the lock stays held while the request is with the transport
Drop(t, id) ==
    /\ FirstIdle(t)
    /\ dropped < MaxDrops
    /\ sessLock = 0
    /\ dropped' = dropped + 1
    /\ IF holds_record(session, id)
       THEN LET d == drop_user_session(session[1], id)
            IN  /\ session' = Some(d.session)
                /\ Transmit(t, drop_request(d.session, d.removed[1]))
                /\ sessLock' = t
                /\ pc' = [pc EXCEPT ![t] = "drop_wait"]
                /\ op' = [op EXCEPT ![t] = [NoCall EXCEPT !.kind = "drop", !.ctx = id]]
                /\ UNCHANGED result
       ELSE /\ result' = [result EXCEPT ![t] =
                            Outcome([NoCall EXCEPT !.kind = "drop"], "ok", FALSE)]
            /\ UNCHANGED <<session, sessLock, pc, op, req, sent, basic>>
    /\ UNCHANGED <<jarVars, decodeVars, contextMap, counterVars, csrfToken, initGuard, counter, reserved, served, started, srvGood>>

\* Client::drop_context : the transport returns; nothing is merged
AnswerDrop(t, r) ==
    /\ pc[t] = "drop_wait"
    /\ sessLock' = 0
    /\ pc' = [pc EXCEPT ![t] = "idle"]
    /\ result' = [result EXCEPT ![t] =
                    Outcome(op[t], IF r.failed THEN "dispatch_error" ELSE "ok", ~r.failed)]
    /\ req' = [req EXCEPT ![t] = NoRequest]
    /\ op' = [op EXCEPT ![t] = NoCall]
    /\ UNCHANGED <<jarVars, decodeVars, contextMap, counterVars, csrfToken, session, initGuard, counter, reserved, sent, basic, served, started,
                   dropped, srvGood>>

Next ==
    \/ Reserve
    \/ \E t \in Tasks, m \in Methods, u \in Uris : Start(t, "stateless", m, u, 0)
    \/ \E t \in Tasks, m \in Methods, u \in Uris, c \in 1..counter :
          Start(t, "stateful", m, u, c)
    \/ \E t \in Tasks : AcquireGuard(t)
    \/ \E t \in Tasks : Recheck(t)
    \/ \E t \in Tasks : PrefetchCheck(t)
    \/ \E t \in Tasks : SendPrefetch(t)
    \/ \E t \in Tasks : \E r \in Answers(served + 1) : AnswerPrefetch(t, r)
    \/ \E t \in Tasks : Send(t)
    \/ \E t \in Tasks : \E r \in Answers(served + 1) : AnswerRequest(t, r)
    \/ \E t \in Tasks, c \in 1..counter : Drop(t, c)
    \/ \E t \in Tasks : \E r \in Answers(served + 1) : AnswerDrop(t, r)

\* ---- the counter in its full width

\* 2^16 : an AtomicU32 is written here as [hi, lo], its value hi * 2^16 + lo
Half == 65536

U32(hi, lo) == [hi |-> hi, lo |-> lo]

\* u32 wrapping_add(1) : the arithmetic of AtomicU32::fetch_add, and of `+` in
\* a build without overflow checks
wrapping_add(v) ==
    IF v.lo + 1 < Half THEN U32(v.hi, v.lo + 1)
    ELSE IF v.hi + 1 < Half THEN U32(v.hi + 1, 0)
    ELSE U32(0, 0)

\* mutant: the addition is lost, the counter keeps the value it had
MutFetchAddU32LosesUpdate(c) == [before |-> c, now |-> c]

\* AtomicU32::fetch_add(1, SeqCst) on the counter in its full width
fetch_add_u32(c) == [before |-> c, now |-> wrapping_add(c)]

\* `fetch_add(..) + 1` : the id, or the panic of a build with overflow checks
\* when the value read was u32::MAX
next_u32(c) ==
    LET Plus(before) ==
            IF before = U32(Half - 1, Half - 1)
            THEN { [panic |-> FALSE, id |-> U32(0, 0)], [panic |-> TRUE, id |-> U32(0, 0)] }
            ELSE { [panic |-> FALSE, id |-> wrapping_add(before)] }
    IN  Plus(fetch_add_u32(c).before)

\* reservations one run of the counter's model makes
MaxReservations == 4

\* the counter when the process starts
CounterInit ==
    /\ CONTEXT_COUNTER = U32(0, 0)
    /\ calls = [over |-> 0, count |-> U32(0, 0)]
    /\ issued = <<>>

\* the counter of a process that has made hi * 2^16 + lo reservations so far,
\* for counts at both ends of the counter's range and of its halves
AfterReservations ==
    /\ \E hi \in {0, 1, Half - 1}, lo \in (0..3) \cup ((Half - 4)..(Half - 1)) :
          /\ CONTEXT_COUNTER = U32(hi, lo)
          /\ calls = [over |-> 0, count |-> U32(hi, lo)]
    /\ issued = <<>>

CounterStarts == JarInit /\ ClientInit /\ AfterReservations

\* UserSessionId::next / Client::create_context on the counter in its full width
ReserveU32 ==
    /\ Len(issued) < MaxReservations
    /\ CONTEXT_COUNTER' = fetch_add_u32(CONTEXT_COUNTER).now
    /\ calls' = [over  |-> IF calls.count = U32(Half - 1, Half - 1)
                           THEN calls.over + 1 ELSE calls.over,
                 count |-> wrapping_add(calls.count)]
    /\ \E r \in next_u32(CONTEXT_COUNTER) : issued' = Append(issued, r)
    /\ UNCHANGED <<jarVars, nonCounterVars>>

CounterNext == ReserveU32

Init == JarInit /\ ClientInit /\ CounterInit

\* the counter, from any number of reservations made before
SpecCounter == CounterStarts /\ [][CounterNext]_vars

\* the Client and its callers
Spec == Init /\ [][Next]_vars

\* a CookieJar on its own, under a clock
SpecJar == Init /\ [][JarNext]_vars

\* ------------------------------------------------ StatelessQuery::query
\* The query path of endpoint.rs runs on a client that keeps its cookies in
\* Session::cookies (cj) and its token in Session::csrf_token (csrfToken).

\* the transport calls a run of queries makes
MaxSends == 4

\* build_request : the headers of the request, from the token and the jar
build_request(jar, token, method, uri, body) ==
    MakeRequest(method, uri, body,
        [sessiontype |-> "",
         cookie |-> IF jar = <<>> THEN None ELSE Some(to_header(jar, uri)),
         csrf |-> IF token # None THEN token[1] ELSE <<"fetch">>,
         auth |-> jar = <<>>])

\* the test of query : a GET must go first to obtain a token
must_first_get(token, method) == method # "GET" /\ token = None

\* update_cookies_from_response : the token is stored first, without a lock
store_csrf_token(token, headers) == IF headers.csrf # None THEN headers.csrf ELSE token

\* the MutexGuard build_request handed back is dropped
GuardDropped(t) == IF sessLock = t THEN 0 ELSE sessLock

\* query is called
QueryStart(t, method, uri) ==
    /\ FirstIdle(t)
    /\ started < MaxOps
    /\ started' = started + 1
    /\ op' = [op EXCEPT ![t] =
                [NoCall EXCEPT !.kind = "query", !.method = method, !.uri = uri,
                               !.body = IF method = "GET" THEN "" ELSE "payload",
                               !.fresh = (cj = <<>>), !.unknown = (csrfToken = None)]]
    /\ pc' = [pc EXCEPT ![t] = "q_load"]
    /\ UNCHANGED <<jarVars, decodeVars, contextMap, counterVars, csrfToken, session, initGuard, sessLock, counter,
                   reserved, req, result, sent, basic, served, dropped, srvGood>>

\* build_request : session.csrf_token().load_full(), before the jar is locked
QueryLoad(t) ==
    /\ pc[t] = "q_load"
    /\ op' = [op EXCEPT ![t].loaded = csrfToken]
    /\ pc' = [pc EXCEPT ![t] = "q_build"]
    /\ UNCHANGED <<jarVars, decodeVars, contextMap, counterVars, csrfToken, session, initGuard, sessLock, counter,
                   reserved, req, result, sent, basic, served, started, dropped, srvGood>>

\* build_request locks the jar and finishes the headers, then the GET that
\* obtains a token or the request itself goes out; the guard of an empty jar is
\* kept until the response has been merged
QueryBuild(t) ==
    /\ pc[t] = "q_build"
    /\ sessLock = 0
    /\ sent < MaxSends
    /\ sessLock' = IF cj = <<>> THEN t ELSE 0
    /\ IF must_first_get(csrfToken, op[t].method)
       THEN /\ Transmit(t, build_request(cj, op[t].loaded, "GET", op[t].uri, ""))
            /\ pc' = [pc EXCEPT ![t] = "q_pre_wait"]
       ELSE /\ Transmit(t, build_request(cj, op[t].loaded, op[t].method, op[t].uri,
                                         op[t].body))
            /\ pc' = [pc EXCEPT ![t] = "q_wait"]
    /\ UNCHANGED <<jarVars, decodeVars, contextMap, counterVars, csrfToken, session, initGuard, counter, reserved, op,
                   result, served, started, dropped, srvGood>>

\* the GET returns : its token is stored; Set-Cookie values wait for the jar
QueryAnswerPrefetch(t, r) ==
    /\ pc[t] = "q_pre_wait"
    /\ served' = served + 1
    /\ IF r.failed
       THEN /\ Finish(t, "dispatch_error", op[t])
            /\ sessLock' = GuardDropped(t)
            /\ UNCHANGED csrfToken
       ELSE /\ csrfToken' = store_csrf_token(csrfToken, r.headers)
            /\ IF r.headers.set_cookie = <<>>
               THEN /\ pc' = [pc EXCEPT ![t] = "q_load"]
                    /\ sessLock' = GuardDropped(t)
                    /\ UNCHANGED op
               ELSE /\ pc' = [pc EXCEPT ![t] = "q_pre_merge"]
                    /\ op' = [op EXCEPT ![t].answer = r]
                    /\ UNCHANGED sessLock
            /\ UNCHANGED <<initGuard, result, req>>
    /\ UNCHANGED <<jarVars, decodeVars, contextMap, counterVars, session, counter, reserved, sent, basic, started,
                   dropped, srvGood>>

\* the request returns : 401 ends the query before anything is stored; else
\* the token is stored and Set-Cookie values wait for the jar
QueryAnswer(t, r) ==
    /\ pc[t] = "q_wait"
    /\ served' = served + 1
    /\ IF r.failed \/ r.status = 401
       THEN /\ Finish(t, IF r.failed THEN "dispatch_error" ELSE "unauthorized", op[t])
            /\ sessLock' = GuardDropped(t)
            /\ UNCHANGED csrfToken
       ELSE /\ csrfToken' = store_csrf_token(csrfToken, r.headers)
            /\ IF r.headers.set_cookie = <<>>
               THEN /\ Finish(t, Decode(r.status), op[t])
                    /\ sessLock' = GuardDropped(t)
               ELSE /\ pc' = [pc EXCEPT ![t] = "q_merge"]
                    /\ op' = [op EXCEPT ![t].answer = r]
                    /\ UNCHANGED <<sessLock, initGuard, result, req>>
    /\ UNCHANGED <<jarVars, decodeVars, contextMap, counterVars, session, counter, reserved, sent, basic, started,
                   dropped, srvGood>>

\* update_cookies_from_response : with the jar's guard (the one kept, or a new
\* one) the Set-Cookie values are applied; then query calls itself, or returns
QueryMerge(t) ==
    /\ pc[t] \in {"q_pre_merge", "q_merge"}
    /\ sessLock \in {0, t}
    /\ sessLock' = 0
    /\ LET Merged(m) ==
               /\ cj' = m.jar
               /\ IF m.panicked
                  THEN Finish(t, "panicked", op[t])
                  ELSE IF pc[t] = "q_pre_merge"
                  THEN /\ pc' = [pc EXCEPT ![t] = "q_load"]
                       /\ op' = [op EXCEPT ![t].answer = NoAnswer]
                       /\ UNCHANGED <<initGuard, result, req>>
                  ELSE Finish(t, Decode(op[t].answer.status), op[t])
       IN  Merged(set_from_multiple_headers(cj, op[t].answer.headers.set_cookie, cjNow))
    /\ UNCHANGED <<cjNow, cjLast, cjRef, decodeVars, contextMap, counterVars, csrfToken, session, counter, reserved,
                   sent, basic, served, started, dropped, srvGood>>

\* mutant: a client counts as logged on as soon as its jar holds any cookie
MutLoggedOnWithAnyCookie(jar) == jar # <<>>

\* Session::is_logged_on, on the jar it locks
is_logged_on(jar) == find(jar, SESSIONID) # None

\* Session::drop_session : &mut self, so no query of this client is under way
QueryDropSession ==
    /\ \A t \in Tasks : pc[t] = "idle"
    /\ sessLock = 0
    /\ cj' = <<>>
    /\ cjRef' = <<>>
    /\ cjLast' = [op |-> "clear", arg |-> <<>>, before |-> cj, at |-> cjNow,
                  panicked |-> FALSE, got |-> None]
    /\ UNCHANGED <<cjNow, clientVars>>

QueryNext ==
    \/ \E t \in Tasks, m \in Methods, u \in Uris : QueryStart(t, m, u)
    \/ \E t \in Tasks : QueryLoad(t)
    \/ \E t \in Tasks : QueryBuild(t)
    \/ \E t \in Tasks : \E r \in Answers(served + 1) : QueryAnswerPrefetch(t, r)
    \/ \E t \in Tasks : \E r \in Answers(served + 1) : QueryAnswer(t, r)
    \/ \E t \in Tasks : QueryMerge(t)
    \/ QueryDropSession

\* ---- scheduling

\* the steps a call of task t takes by itself once it has been made, the
\* transport's answer to it included
Proceeds(t) ==
    \/ AcquireGuard(t)
    \/ Recheck(t)
    \/ PrefetchCheck(t)
    \/ SendPrefetch(t)
    \/ Send(t)
    \/ \E r \in Answers(served + 1) : AnswerPrefetch(t, r)
    \/ \E r \in Answers(served + 1) : AnswerRequest(t, r)
    \/ \E r \in Answers(served + 1) : AnswerDrop(t, r)

\* the Client under a runtime that keeps polling its tasks and a transport
\* that answers every request: while some call can take a step, some call
\* does (no more is asked of the order in which the mutexes are handed out)
SpecLive == Init /\ [][Next]_vars /\ WF_vars(\E t \in Tasks : Proceeds(t))

\* the queries of endpoint.rs and their callers
SpecQuery == Init /\ [][QueryNext]_vars

\* ------------------------------------------- the stateful queries of endpoint.rs

\* mutant: a request without Cookie header is let through as it is
MutInjectWithoutCookie(request, ctxs, id) ==
    [err |-> FALSE, request |-> [request EXCEPT !.sessiontype = "stateful"]]

\* inject_request_context : the session type is set; the cookie of the Context
\* of id, if there is one, is appended to the Cookie header, and a request
\* without that header is refused with QueryError::CookiesMissing
inject_request_context(request, ctxs, id) ==
    LET typed == [request EXCEPT !.sessiontype = "stateful"]
    IN  IF ctxs[id] = None THEN [err |-> FALSE, request |-> typed]
        ELSE IF request.cookie # None
        THEN [err |-> FALSE,
              request |-> [typed EXCEPT !.cookie =
                              Some(@[1] \o <<";", " ">> \o as_cookie_pair(ctxs[id][1]))]]
        ELSE [err |-> TRUE, request |-> typed]

\* StatefulQuery::query is called with a reserved ContextId
StatefulStart(t, method, uri, ctx) ==
    /\ FirstIdle(t)
    /\ started < MaxOps
    /\ started' = started + 1
    /\ op' = [op EXCEPT ![t] =
                [NoCall EXCEPT !.kind = "stateful_query", !.method = method, !.uri = uri,
                               !.ctx = ctx,
                               !.body = IF method = "GET" THEN "" ELSE "payload",
                               !.fresh = (cj = <<>>), !.unknown = (csrfToken = None)]]
    /\ pc' = [pc EXCEPT ![t] = "q_load"]
    /\ UNCHANGED <<jarVars, decodeVars, contextMap, counterVars, csrfToken, session, initGuard, sessLock,
                   counter, reserved, req, result, sent, basic, served, dropped, srvGood>>

\* StatefulQuery::query : build_request locks the jar; then the GET that obtains
\* a token goes out, or inject_request_context finishes the request and it
\* goes out, or the query returns the error; a guard not handed on is dropped
StatefulBuild(t) ==
    /\ pc[t] = "q_build"
    /\ sessLock = 0
    /\ IF must_first_get(csrfToken, op[t].method)
       THEN /\ sent < MaxSends
            /\ Transmit(t, build_request(cj, op[t].loaded, "GET", op[t].uri, ""))
            /\ sessLock' = IF cj = <<>> THEN t ELSE 0
            /\ pc' = [pc EXCEPT ![t] = "q_pre_wait"]
            /\ op' = [op EXCEPT ![t].prefetch = req'[t]]
            /\ UNCHANGED <<initGuard, result>>
       ELSE LET Injected(inj) ==
                    IF inj.err
                    THEN /\ Finish(t, "cookies_missing", op[t])
                         /\ UNCHANGED <<sessLock, sent, basic>>
                    ELSE /\ sent < MaxSends
                         /\ Transmit(t, inj.request)
                         /\ sessLock' = IF cj = <<>> THEN t ELSE 0
                         /\ pc' = [pc EXCEPT ![t] = "q_wait"]
                         /\ UNCHANGED <<initGuard, result, op>>
            IN  Injected(inject_request_context(
                    build_request(cj, op[t].loaded, op[t].method, op[t].uri, op[t].body),
                    contextMap, op[t].ctx))
    /\ UNCHANGED <<jarVars, decodeVars, contextMap, counterVars, csrfToken, session, counter, reserved,
                   served, started, dropped, srvGood>>

\* the GET returns : update_session_from_response stores its token; Set-Cookie
\* values wait for the jar
StatefulAnswerPrefetch(t, r) == QueryAnswerPrefetch(t, r)

\* the request returns : any status is taken; the token is stored and
\* Set-Cookie values wait for the jar
StatefulAnswer(t, r) ==
    /\ pc[t] = "q_wait"
    /\ served' = served + 1
    /\ IF r.failed
       THEN /\ Finish(t, "dispatch_error", op[t])
            /\ sessLock' = GuardDropped(t)
            /\ UNCHANGED csrfToken
       ELSE /\ csrfToken' = store_csrf_token(csrfToken, r.headers)
            /\ IF r.headers.set_cookie = <<>>
               THEN /\ Finish(t, Decode(r.status), op[t])
                    /\ sessLock' = GuardDropped(t)
               ELSE /\ pc' = [pc EXCEPT ![t] = "q_merge"]
                    /\ op' = [op EXCEPT ![t].answer = r]
                    /\ UNCHANGED <<sessLock, initGuard, result, req>>
    /\ UNCHANGED <<jarVars, decodeVars, contextMap, counterVars, session, counter, reserved, sent, basic,
                   started, dropped, srvGood>>

\* update_session_from_response : with the jar's guard the Set-Cookie values
\* are applied, a contextid cookie is taken out of the jar and becomes the
\* cookie of the Context of the query's id; then query calls itself, or returns
StatefulMerge(t) ==
    /\ pc[t] \in {"q_pre_merge", "q_merge"}
    /\ sessLock \in {0, t}
    /\ sessLock' = 0
    /\ LET Taken(tk) ==
               /\ cj' = tk.jar
               /\ contextMap' = IF tk.cookie # None
                                THEN BindContext(contextMap, op[t].ctx, tk.cookie[1])
                                ELSE contextMap
               /\ IF pc[t] = "q_pre_merge"
                  THEN /\ pc' = [pc EXCEPT ![t] = "q_load"]
                       /\ op' = [op EXCEPT ![t].answer = NoAnswer]
                       /\ UNCHANGED <<initGuard, result, req>>
                  ELSE Finish(t, Decode(op[t].answer.status), op[t])
           Merged(m) ==
               IF m.panicked
               THEN /\ cj' = m.jar
                    /\ Finish(t, "panicked", op[t])
                    /\ UNCHANGED contextMap
               ELSE Taken(take(m.jar, CONTEXT_ID))
       IN  Merged(set_from_multiple_headers(cj, op[t].answer.headers.set_cookie, cjNow))
    /\ UNCHANGED <<cjNow, cjLast, cjRef, decodeVars, counterVars, csrfToken, session, counter,
                   reserved, sent, basic, served, started, dropped, srvGood>>

StatefulNext ==
    \/ Reserve
    \/ \E t \in Tasks, m \in Methods, u \in Uris, c \in 1..counter : StatefulStart(t, m, u, c)
    \/ \E t \in Tasks : QueryLoad(t)
    \/ \E t \in Tasks : StatefulBuild(t)
    \/ \E t \in Tasks : \E r \in Answers(served + 1) : StatefulAnswerPrefetch(t, r)
    \/ \E t \in Tasks : \E r \in Answers(served + 1) : StatefulAnswer(t, r)
    \/ \E t \in Tasks : StatefulMerge(t)
    \/ QueryDropSession

\* the stateful queries of endpoint.rs and their callers
SpecStateful == Init /\ [][StatefulNext]_vars

\* ------------------------------------------- the session under its merges

\* the responses merged: the n-th carries values only it carries
MaxMerged == 3

\* header maps a response can carry: cookies or none, a token, none, or a
\* token header that is not text
MergedHeaders ==
    { [set_cookie |-> c, csrf |-> k] :
        c \in UNION { {<<>>, <<SessRaw(n)>>, <<SessRaw(n), CtxRaw(n)>>} : n \in 1..MaxMerged },
        k \in {None, Some(OpaqueToken)} \cup { Some(Token(n)) : n \in 1..MaxMerged } }

MergedFor == {None} \cup { Some(id) : id \in CtxIds }

\* SecuritySession::create_from_headers makes the session
MergeCreate(headers, ctx) ==
    /\ session = None
    /\ session' = create_from_headers(headers, ctx, cjNow).session
    /\ UNCHANGED <<jarVars, decodeVars, contextMap, counterVars, csrfToken, initGuard, sessLock, counter,
                   reserved, pc, op, req, result, sent, basic, served, started, dropped,
                   srvGood>>

\* SecuritySession::update_from_headers is called on the session
MergeUpdate(headers, ctx) ==
    /\ session # None
    /\ session' = update_from_headers(session[1], headers, ctx, cjNow).session
    /\ UNCHANGED <<jarVars, decodeVars, contextMap, counterVars, csrfToken, initGuard, sessLock, counter,
                   reserved, pc, op, req, result, sent, basic, served, started, dropped,
                   srvGood>>

MergeNext ==
    \/ \E h \in MergedHeaders, ctx \in MergedFor : MergeCreate(h, ctx)
    \/ \E h \in MergedHeaders, ctx \in MergedFor : MergeUpdate(h, ctx)

\* a SecuritySession and the header maps merged into it
SpecMerge == Init /\ [][MergeNext]_vars

\* --------------------------------------------------------- the decoders

\* the transport hands back a response
Receive(r) ==
    /\ response' = r
    /\ decoded' = NotDecoded
    /\ UNCHANGED <<jarVars, contextMap, counterVars, csrfToken, session, initGuard, sessLock, counter, reserved, pc, op,
                   req, result, sent, basic, served, started, dropped, srvGood>>

Returned(into, d) == [into |-> into, variant |-> d.variant, response |-> d.response]

\* E::Response::try_from(response) for a CacheControlled<T>
DecodeCacheControlled ==
    /\ response # NoResponse
    /\ decoded' = Returned("CacheControlled", try_from_CacheControlled(response))
    /\ UNCHANGED <<jarVars, response, contextMap, counterVars, csrfToken, session, initGuard, sessLock, counter,
                   reserved, pc, op, req, result, sent, basic, served, started, dropped,
                   srvGood>>

\* E::Response::try_from(response) for a Success<T>
DecodeSuccess ==
    /\ response # NoResponse
    /\ decoded' = Returned("Success", try_from_Success(response))
    /\ UNCHANGED <<jarVars, response, contextMap, counterVars, csrfToken, session, initGuard, sessLock, counter,
                   reserved, pc, op, req, result, sent, basic, served, started, dropped,
                   srvGood>>

DecodeNext ==
    \/ \E r \in Responses : Receive(r)
    \/ DecodeCacheControlled
    \/ DecodeSuccess

\* responses and the decoders applied to them
SpecDecode == Init /\ [][DecodeNext]_vars

\* ------------------------------------------------- properties of the Client

AllReturned == \A t \in Tasks : pc[t] = "idle"

SessionCookies(sess) == SelectSeq(sess[1].cookies, LAMBDA c : Contains(c.name, SESSIONID))

IsDispatch(kind) == kind \in {"stateless", "stateful"}

\* C1: as long as every answer of the transport has set a session-id cookie
\* (a different one each time), the transport has received at most one request
\* with basic authorization, however the callers interleave; and once every
\* caller has returned and an answer was given, it has received exactly one
\* and the Client holds one session with a single session id.
C1_BootstrapConvergence ==
    srvGood =>
        /\ basic <= 1
        /\ (AllReturned /\ served > 0) =>
              /\ basic = 1
              /\ session # None
              /\ Len(SessionCookies(session)) = 1

\* every caller started a dispatch while no session existed, while the callers
\* before it were still busy, and all of them have returned
C1_Witness ==
    /\ srvGood
    /\ AllReturned
    /\ basic = 1
    /\ \A t \in Tasks : IsDispatch(result[t].kind) /\ result[t].fresh
    /\ Len(SessionCookies(session)) = 1

\* C2: whenever the request of a dispatch with a method other than GET, started
\* while no CSRF token was known, is with the transport, the dispatch has sent
\* a GET without body to the same URI before it, that GET's response returned
\* a token, and the request's x-csrf-token header is that token.
C2_CsrfFetchBeforeMutate ==
    \A t \in Tasks :
        (pc[t] = "wait" /\ op[t].method # "GET" /\ op[t].unknown) =>
            /\ op[t].prefetch.method = "GET"
            /\ op[t].prefetch.body = ""
            /\ op[t].prefetch.uri = op[t].uri
            /\ (op[t].token # None => req[t].csrf = op[t].token[1])
            /\ req[t].csrf # <<"fetch">>

Record(sess, id) == IF sess = None THEN None ELSE sess[1].contexts[id]

\* task t receives an answer in this step
Answered(t) == pc[t] \in {"wait", "prefetch_wait"} /\ pc'[t] # pc[t]

\* task t sends the request of a stateful dispatch in this step
SendsStateful(t) == pc[t] = "send" /\ pc'[t] = "wait" /\ op[t].kind = "stateful"

\* C3: a step that merges the response to a dispatch made with one context id
\* (or with none) leaves the record of every other context id as it was, value
\* and existence; and the Cookie header of a stateful request on one context id
\* does not contain the contextid value stored for another.
C3_ContextIsolation ==
    [][\A t \in Tasks, b \in CtxIds :
          /\ (Answered(t) /\ op[t].ctx # b) => Record(session', b) = Record(session, b)
          /\ (SendsStateful(t) /\ op[t].ctx # b /\ Record(session, b) # None
                /\ req'[t].cookie # None)
                => ~Contains(req'[t].cookie[1], Record(session, b)[1].value)
      ]_vars

\* two context ids hold contextid cookies of different values: the response
\* that bound the second was merged while the first was bound
C3_Witness ==
    /\ session # None
    /\ \E a, b \in CtxIds :
          /\ a # b
          /\ Record(session, a) # None
          /\ Record(session, b) # None
          /\ Record(session, a)[1].value # Record(session, b)[1].value

\* C8: a dispatch whose response carried a malformed Set-Cookie value ends
\* with its normal result, and the session cookie set by a well-formed value
\* of the same response is stored.
C8_MalformedSwallowed ==
    \A t \in Tasks :
        result[t].seenBad =>
            /\ result[t].outcome \in {"ok", "bad_status"}
            /\ result[t].siblings

\* C9: a dispatch that received a response with status 401 ends with the
\* Unauthorized error, has sent no request after that response, and the
\* response has not created the session.
C9_UnauthorizedSurfaced ==
    \A t \in Tasks :
        result[t].seen401 =>
            /\ result[t].outcome = "unauthorized"
            /\ ~result[t].after401
            /\ ~result[t].published401

DropReturns(t) == pc[t] = "drop_wait" /\ pc'[t] = "idle"

\* the Cookie header task t sends in this step names no contextid cookie
SendsNoContextId(t) == req'[t].cookie # None => ~Contains(req'[t].cookie[1], CONTEXT_ID)

SendsDispatch(t) ==
    \/ pc[t] = "send" /\ pc'[t] = "wait"
    \/ pc[t] = "prefetch" /\ pc'[t] = "prefetch_wait"

C14_SessionIffSessionCookie ==
    session # None => session_id(session[1]) # None

\* C15: the Cookie header of a stateful request on an id that has a record is
\* the stateless cookie header for the same destination, then "; ", then the
\* name=value pair of the record's contextid cookie (stated for a stateless
\* header that is not empty, where the separator has two pairs to separate).
C15_StatefulHeaderSeparated ==
    [][\A t \in Tasks :
          (SendsStateful(t) /\ Record(session, op[t].ctx) # None
              /\ stateless_cookies(session[1], op[t].uri) # <<>>)
              => /\ req'[t].cookie # None
                 /\ req'[t].cookie[1] =
                        stateless_cookies(session[1], op[t].uri) \o <<";", " ">>
                            \o as_cookie_pair(Record(session, op[t].ctx)[1])
      ]_vars

\* the Cookie header h, read as a "; "-separated list, has the cookie c
CarriesCookie(h, c) ==
    \E i \in 1..Len(HeaderPairs(h)) : HeaderPairs(h)[i] = as_cookie_pair(c)

\* the answer r sets a contextid cookie, and every value it sets can be parsed
SetsContextId(r) ==
    /\ ~r.failed
    /\ ~Malformed(r)
    /\ \E i \in 1..Len(r.headers.set_cookie) :
          Parse(r.headers.set_cookie[i]).cookie.name = CONTEXT_ID

\* C16: a stateful request on an id without a record goes out with the
\* stateless Cookie header; a response to a stateful dispatch that sets a
\* contextid cookie binds that value to the id of the dispatch; and a stateful
\* request on an id with a record carries the record's contextid cookie (the
\* one most recently bound) as a cookie of its Cookie header.
C16_ContextCaptureAndReuse ==
    [][\A t \in Tasks :
          /\ (SendsStateful(t) /\ Record(session, op[t].ctx) = None /\ session # None)
                => req'[t].cookie = Some(stateless_cookies(session[1], op[t].uri))
          /\ \A r \in Answers(served + 1) :
                (AnswerRequest(t, r) /\ op[t].kind = "stateful" /\ SetsContextId(r))
                    => /\ Record(session', op[t].ctx) # None
                       /\ Record(session', op[t].ctx)[1].value = <<"c", ToString(served + 1)>>
          /\ (SendsStateful(t) /\ Record(session, op[t].ctx) # None)
                => /\ req'[t].cookie # None
                   /\ CarriesCookie(req'[t].cookie[1], Record(session, op[t].ctx)[1])
      ]_vars

\* C17: every call ends after at most two calls of the transport, whatever the
\* server answers: the transport has never been called more than twice per
\* call started (and once more per context dropped).
C17_BoundedRoundTrips == sent <= 2 * started + dropped

\* the transport fails the call task t is waiting for
FailsDispatch(t) ==
    \/ AnswerPrefetch(t, TransportFailure)
    \/ AnswerRequest(t, TransportFailure)

\* C18: a failure of the transport, for the GET or for the request, ends the
\* dispatch with that DispatchError, leaves the session as the failing call
\* found it and frees the init guard if the dispatch held it; the init guard
\* is never left with a call that has returned, so a failed bootstrap leaves no
\* session and the next dispatch logs on itself.
C18_TransportFailure ==
    [][ /\ \A t \in Tasks :
              FailsDispatch(t) =>
                  /\ pc'[t] = "idle"
                  /\ result'[t].outcome = "dispatch_error"
                  /\ session' = session
                  /\ initGuard' # t
                  /\ (initGuard # t => initGuard' = initGuard)
        /\ initGuard' # 0 => pc'[initGuard'] # "idle"
      ]_vars

\* the only answer so far was the failure of a bootstrap, and the next
\* dispatch has sent its own request with the credentials
C18_Witness ==
    /\ served = 1
    /\ session = None
    /\ basic = 2
    /\ \E t \in Tasks : result[t].outcome = "dispatch_error" /\ result[t].fresh
    /\ \E t \in Tasks : pc[t] \in {"wait", "prefetch_wait"} /\ req[t].auth

\* the cookies of a jar whose name contains the pattern
Matching(jar, pattern) == SelectSeq(jar, LAMBDA c : Contains(c.name, pattern))

\* take(name) or drop_cookie(name) has just returned: the cookie of exactly
\* this name, if the jar held one, and the jar keeps every other cookie
TookExactName ==
    cjLast.op \in {"take", "drop_cookie"} =>
        /\ cjLast.got = (IF Named(cjLast.before, cjLast.arg[1]) = <<>> THEN None
                         ELSE Some(Head(Named(cjLast.before, cjLast.arg[1]))))
        /\ cj = Without(cjLast.before, cjLast.arg[1])

\* C19: find(name) and take(name) select by exact name: find returns a cookie
\* only if its name equals the argument, and take(name) removes and returns
\* exactly that cookie and leaves every other cookie in the jar.
C19_FindTakeExactName ==
    /\ cjLast.op = "find" =>
          cjLast.got = (IF Named(cjLast.before, cjLast.arg[1]) = <<>> THEN None
                        ELSE Some(Head(Named(cjLast.before, cjLast.arg[1]))))
    /\ TookExactName

\* C19 (amended): find(pattern) returns the first stored cookie whose name
\* contains the pattern and leaves the jar as it is; take(name) removes and
\* returns exactly the cookie whose name equals the argument and leaves every
\* other cookie in the jar.
C19_FindContainsTakeExact ==
    /\ cjLast.op = "find" =>
          /\ cjLast.got = (IF Matching(cjLast.before, cjLast.arg[1]) = <<>> THEN None
                           ELSE Some(Head(Matching(cjLast.before, cjLast.arg[1]))))
          /\ cj = cjLast.before
    /\ TookExactName

\* find has returned a cookie whose name is not the argument
C19_Witness ==
    /\ cjLast.op = "find"
    /\ cjLast.got # None
    /\ cjLast.got[1].name # cjLast.arg[1]
    /\ Len(cj) > 1

\* the response r to the GET or to the request of task t is merged
MergesResponse(t, r) == ~r.failed /\ (AnswerPrefetch(t, r) \/ AnswerRequest(t, r))

\* C20: every response with an x-csrf-token header leaves that header's value
\* as the CSRF token of the session it is merged into, whether or not it
\* carries a Set-Cookie header.
C20_TokenFromEveryResponse ==
    [][ \A t \in Tasks : \A r \in Answers(served + 1) :
            MergesResponse(t, r) /\ session # None /\ r.headers.csrf # None =>
                session' # None /\ session'[1].csrf_token = r.headers.csrf
      ]_vars

\* C21: the jar of the session never holds a sap-contextid cookie, so the
\* stateless Cookie header never carries a sap-contextid pair.
C21_NoContextIdInJar ==
    session # None =>
        /\ find(session[1].cookies, CONTEXT_ID) = None
        /\ \A u \in Uris : ~Contains(stateless_cookies(session[1], u), CONTEXT_ID)

\* C22: ids are assigned incrementally starting from 0: the first id handed
\* out is 0 and each further id is the one before it plus 1.
C22_IdsFromZero ==
    /\ reserved # <<>> => reserved[1] = 0
    /\ \A i \in 2..Len(reserved) : reserved[i] = reserved[i - 1] + 1

\* the request of task t is with the transport
QueryInFlight(t) == pc[t] \in {"q_pre_wait", "q_wait"}

\* C23: drop_session empties the jar and the client is no longer logged on;
\* a request built on the emptied jar carries Authorization and no Cookie
\* header; is_logged_on is true exactly when the jar holds a cookie whose name
\* contains SAP_SESSIONID_, which is so once a query has succeeded with a
\* response that set the session cookie.
C23_ExplicitLogoff ==
    [][ /\ QueryDropSession => (cj' = <<>> /\ ~is_logged_on(cj'))
        /\ (cjLast'.op = "clear" /\ cj' = <<>>) =>
              \A t \in Tasks :
                  QueryInFlight(t)' => (req'[t].auth /\ req'[t].cookie = None)
        /\ is_logged_on(cj') <=> \E i \in 1..Len(cj') : Contains(cj'[i].name, SESSIONID)
        /\ \A t \in Tasks :
              ( /\ QueryMerge(t)
                /\ pc[t] = "q_merge"
                /\ SetsSession(op[t].answer, cjNow)
                /\ op[t].answer.status = 200 ) =>
                  (result'[t].outcome = "ok" /\ is_logged_on(cj'))
      ]_vars

\* the client was logged on, the session was dropped, and the next query has
\* sent its request with the credentials and without cookies
C23_Witness ==
    /\ cjLast.op = "clear"
    /\ is_logged_on(cjLast.before)
    /\ ~is_logged_on(cj)
    /\ \E t \in Tasks : QueryInFlight(t) /\ req[t].auth /\ req[t].cookie = None

\* C24: a CacheControlled response decodes status 304 to NotModified without
\* the body, status 200 to Modified, and every other status to BadStatusCode
\* carrying the response as it came; a Success response decodes status 200
\* and maps every other status to BadStatusCode.
C24_DecodingByStatus ==
    /\ decoded.into = "CacheControlled" =>
          /\ response.status = 304 =>
                (decoded.variant = "NotModified" /\ decoded.response.body = "()")
          /\ response.status = 200 => decoded.variant = "Modified"
          /\ response.status \notin {200, 304} =>
                (decoded.variant = "BadStatusCode" /\ decoded.response = response)
    /\ decoded.into = "Success" =>
          /\ response.status = 200 => decoded.variant = "Success"
          /\ response.status # 200 =>
                (decoded.variant = "BadStatusCode" /\ decoded.response = response)

\* what is left of a response besides its body
Parts(r) == [status |-> r.status, etag |-> r.etag]

\* C24 (amended): as C24, but status 200 decodes to Modified (to Success) only
\* when the body deserializes, and to the ParseError of the body when it does
\* not; status and headers of a decoded response are those of the response.
C24_DecodingByStatusAndBody ==
    /\ decoded.into = "CacheControlled" =>
          /\ response.status = 304 =>
                /\ decoded.variant = "NotModified"
                /\ decoded.response.body = "()"
                /\ Parts(decoded.response) = Parts(response)
          /\ response.status = 200 =>
                IF deserialize_response(response.body) # None
                THEN /\ decoded.variant = "Modified"
                     /\ Parts(decoded.response) = Parts(response)
                ELSE decoded.variant = "ParseError"
          /\ response.status \notin {200, 304} =>
                (decoded.variant = "BadStatusCode" /\ decoded.response = response)
    /\ decoded.into = "Success" =>
          /\ response.status = 200 =>
                IF deserialize_response(response.body) # None
                THEN /\ decoded.variant = "Success"
                     /\ Parts(decoded.response) = Parts(response)
                ELSE decoded.variant = "ParseError"
          /\ response.status # 200 =>
                (decoded.variant = "BadStatusCode" /\ decoded.response = response)

\* a 304 with an ETag and a body was decoded to NotModified
C24_Witness ==
    /\ decoded.into = "CacheControlled"
    /\ decoded.variant = "NotModified"
    /\ response.etag # None
    /\ response.body # ""

\* task t hands a request to the transport
Sends(t) == SendPrefetch(t) \/ Send(t)

\* C25: the second look of a dispatch that took the init guard leaves the
\* guard with it only if there is still no session; if a session exists by
\* then the guard is freed before anything is sent, and the requests of that
\* dispatch carry the session's cookies and no credentials.
C25_InitGuardRecheck ==
    [][\A t \in Tasks :
          /\ Recheck(t) =>
                /\ initGuard = t
                /\ sent' = sent
                /\ initGuard' = (IF session = None THEN t ELSE 0)
          /\ (Sends(t) /\ op[t].fresh /\ initGuard # t) =>
                (~req'[t].auth /\ req'[t].cookie # None)
      ]_vars

\* a dispatch that found no session when it started has let go of the guard
\* and its request, with cookies, is with the transport
C25_Witness ==
    \E t \in Tasks :
        /\ op[t].fresh
        /\ pc[t] \in {"wait", "prefetch_wait"}
        /\ initGuard # t
        /\ ~req[t].auth
        /\ req[t].cookie # None

\* the request of task t, carrying the credentials, is with the transport
BasicInFlight(t) == pc[t] \in {"prefetch_wait", "wait", "drop_wait"} /\ req[t].auth

\* C26: one dispatch at most holds the init guard; the holder keeps it from
\* before its first request until its call returns, after the response was
\* merged (or lets go of it at the re-check, before it sent anything); a
\* request with the credentials is in flight only for the holder, so never two
\* at the same time.
C26_BootstrapMutex ==
    [][ /\ \A t, u \in Tasks : (BasicInFlight(t)' /\ BasicInFlight(u)') => t = u
        /\ \A t \in Tasks : BasicInFlight(t)' => initGuard' = t
        /\ \A t \in Tasks :
              (initGuard = t /\ initGuard' # t) =>
                  /\ initGuard' = 0
                  /\ Recheck(t) \/ (pc[t] \in {"prefetch_wait", "wait"} /\ pc'[t] = "idle")
      ]_vars

\* the holder's request with the credentials is in flight while the other
\* caller waits for the guard
C26_Witness ==
    \E t, u \in Tasks :
        /\ BasicInFlight(t)
        /\ initGuard = t
        /\ pc[u] = "guard"

\* task t starts a dispatch
StartsDispatch(t) == pc[t] = "idle" /\ IsDispatch(op'[t].kind)

\* C27: a dispatch that starts when a session exists never waits for the init
\* guard and never holds it: it goes on to its requests, whoever holds the
\* guard at that time.
C27_NoGuardOnceSession ==
    [][\A t \in Tasks :
          /\ (StartsDispatch(t) /\ session # None) => (pc'[t] = "check" /\ ~op'[t].fresh)
          /\ ~op'[t].fresh => (pc'[t] \notin {"guard", "recheck"} /\ initGuard' # t)
          /\ (pc[t] = "check" /\ ~op[t].fresh /\ sessLock = 0) => ENABLED PrefetchCheck(t)
          /\ (pc[t] = "prefetch" /\ ~op[t].fresh /\ sessLock = 0) => ENABLED SendPrefetch(t)
          /\ (pc[t] = "send" /\ ~op[t].fresh /\ sessLock = 0) => ENABLED Send(t)
      ]_vars

\* the request of a dispatch that started with a session is in flight while
\* the dispatch that created the session still holds the guard
C27_Witness ==
    \E t, u \in Tasks :
        /\ initGuard = u
        /\ u # t
        /\ IsDispatch(op[t].kind)
        /\ ~op[t].fresh
        /\ pc[t] = "wait"

\* the answer r is given to the call task t is waiting for
Answers_(t, r) == AnswerPrefetch(t, r) \/ AnswerRequest(t, r) \/ AnswerDrop(t, r)

\* C28: no session exists before the first answer, however many requests were
\* sent; a session comes to exist only in the step that merges a response with
\* at least one Set-Cookie value; and a response without Set-Cookie leaves the
\* session, absent or not, its jar and its contexts as they were.
C28_NoSpeculativeSession ==
    [][ /\ served' = 0 => session' = None
        /\ (session = None /\ session' # None) =>
              \E t \in Tasks : \E r \in Answers(served + 1) :
                  /\ AnswerPrefetch(t, r) \/ AnswerRequest(t, r)
                  /\ ~r.failed
                  /\ r.headers.set_cookie # <<>>
        /\ session' # session =>
              \A t \in Tasks : \A r \in Answers(served + 1) :
                  r.headers.set_cookie = <<>> => ~Answers_(t, r)
      ]_vars

\* the first dispatch has returned its 200 response, which set no cookie, and
\* there is still no session
C28_Witness ==
    /\ served = 1
    /\ sent = 1
    /\ session = None
    /\ \E t \in Tasks : result[t].outcome = "ok" /\ IsDispatch(result[t].kind)

\* the Set-Cookie values of a response to task u have yet to be applied
HalfMerged(u) == pc[u] \in {"q_pre_merge", "q_merge"}

\* C29: what one response changes (token, cookies) is applied as one step with
\* respect to every other task: no request is built with the token of a
\* response whose Set-Cookie values are not yet in the jar the request's
\* cookies are read from.
C29_AtomicMerge ==
    [][\A t, u \in Tasks :
          (QueryBuild(t) /\ HalfMerged(u) /\ op[u].answer.headers.csrf # None) =>
              op[t].loaded # op[u].answer.headers.csrf
      ]_vars

\* C30: a contextid value comes to be bound to an id only by the response to
\* a stateful dispatch on that id, and it is the value that response set; no
\* value received by a stateless dispatch or a prefetch GET is ever bound.
C30_ContextIdProvenance ==
    [][\A id \in CtxIds :
          (Record(session', id) # None /\ Record(session', id) # Record(session, id)) =>
              /\ \E t \in Tasks :
                    /\ pc[t] = "wait" /\ pc'[t] = "idle"
                    /\ op[t].kind = "stateful"
                    /\ op[t].ctx = id
              /\ Record(session', id)[1].value = <<"c", ToString(served + 1)>>
      ]_vars

\* ---- the prefetch is a stateless exchange

\* C31: the GET that prefetches the CSRF token of a stateful dispatch goes out
\* with session type "stateless" and without the contextid cookie stored for
\* the dispatch's id, and merging its response leaves the record of every id
\* as it was (none created, none updated, none removed).
C31_PrefetchIsStateless ==
    [][ /\ \A t \in Tasks :
              (SendPrefetch(t) /\ op[t].kind = "stateful") =>
                  /\ req'[t].sessiontype = "stateless"
                  /\ req'[t].method = "GET"
                  /\ (req'[t].cookie # None /\ Record(session, op[t].ctx) # None) =>
                        ~CarriesCookie(req'[t].cookie[1], Record(session, op[t].ctx)[1])
        /\ \A t \in Tasks :
              (pc[t] = "prefetch_wait" /\ pc'[t] # pc[t]) =>
                  \A id \in CtxIds : Record(session', id) = Record(session, id)
      ]_vars

\* the prefetch of a stateful dispatch whose id has a record went out with a
\* Cookie header, and its response has been merged
C31_Witness ==
    \E t \in Tasks :
        /\ pc[t] = "send"
        /\ op[t].kind = "stateful"
        /\ op[t].prefetch # NoRequest
        /\ op[t].prefetch.cookie # None
        /\ Record(session, op[t].ctx) # None

\* ---- the response that creates the session

\* the cookies the answer r sets, as parsed, in the order of its headers
ParsedCookies(r) ==
    [i \in 1..Len(r.headers.set_cookie) |-> Parse(r.headers.set_cookie[i]).cookie]

\* those of them that are contextid cookies, and the others
ContextCookies(r) == SelectSeq(ParsedCookies(r), LAMBDA c : c.name = CONTEXT_ID)

OtherCookies(r) == SelectSeq(ParsedCookies(r), LAMBDA c : c.name # CONTEXT_ID)

\* the record map that holds the contextid cookie of r for the id c, and no other
OnlyRecord(c, r) ==
    [id \in CtxIds |-> IF id = c THEN Some(ContextCookies(r)[Len(ContextCookies(r))])
                       ELSE None]

\* this step merges r, a response to task t, and the session comes to exist
CreatesSession(t, r) ==
    /\ session = None
    /\ session' # None
    /\ AnswerPrefetch(t, r) \/ AnswerRequest(t, r)

\* C32: when the response that creates the session is any response to a stateful
\* dispatch with id c (to its request or to the GET sent ahead of it) and sets
\* a sap-contextid cookie, the new session holds the record of c with that
\* cookie and no other record, and its jar holds the other cookies of the
\* response; when it is a response to a stateless dispatch the new session
\* holds no record.
C32_FirstResponseSeedsRecord ==
    [][ (session = None /\ session' # None) =>
          \A t \in Tasks : \A r \in Answers(served + 1) :
              CreatesSession(t, r) =>
                  IF op[t].kind = "stateful" /\ ContextCookies(r) # <<>>
                  THEN /\ session'[1].contexts = OnlyRecord(op[t].ctx, r)
                       /\ session'[1].cookies = OtherCookies(r)
                  ELSE op[t].kind = "stateless" => session'[1].contexts = NoContexts
      ]_vars

\* C32 (amended): when the response that creates the session answers the
\* request of a stateful dispatch with id c itself and sets a sap-contextid
\* cookie, the new session holds the record of c with that cookie and no other
\* record; when it answers a stateless dispatch, or the GET that prefetches
\* the CSRF token of any dispatch, the new session holds no record; in both
\* cases the jar holds the other cookies of the response and no contextid cookie.
C32_FirstResponseSeedsRecordOfRequest ==
    [][ (session = None /\ session' # None) =>
          \A t \in Tasks : \A r \in Answers(served + 1) :
              CreatesSession(t, r) =>
                  /\ session'[1].cookies = OtherCookies(r)
                  /\ IF pc[t] = "wait" /\ op[t].kind = "stateful" /\ ContextCookies(r) # <<>>
                     THEN session'[1].contexts = OnlyRecord(op[t].ctx, r)
                     ELSE session'[1].contexts = NoContexts
      ]_vars

\* the one response received so far answered the request of a stateful dispatch
\* and created a session that holds a record and a session cookie
C32_Witness ==
    /\ served = 1
    /\ session # None
    /\ session_id(session[1]) # None
    /\ \E t \in Tasks :
          /\ result[t].kind = "stateful"
          /\ result[t].fresh
          /\ result[t].outcome = "ok"
    /\ \E c \in CtxIds : Record(session, c) # None

\* ---- the life of a record

\* this step is drop_context(id) finding and removing the record of id
Drops(id) == \E t \in Tasks : Drop(t, id) /\ holds_record(session, id)

\* C33: a record that exists is still there after every step that merges a
\* response, and after every other step that is not a drop of its own id
\* (only drop(id) removes the record of id); the step that drops id leaves the
\* records of all other ids, the cookie jar and the CSRF token as they were.
C33_RecordLifecycle ==
    [][\A id \in CtxIds :
          /\ (Record(session, id) # None /\ \E t \in Tasks : Answered(t))
                => Record(session', id) # None
          /\ (Record(session, id) # None /\ Record(session', id) = None) => Drops(id)
          /\ Drops(id) =>
                /\ Record(session', id) = None
                /\ \A b \in CtxIds \ {id} : Record(session', b) = Record(session, b)
                /\ session'[1].cookies = session[1].cookies
                /\ session'[1].csrf_token = session[1].csrf_token
      ]_vars

\* one id was dropped while the record of another, the session cookie and the
\* CSRF token are still there
C33_Witness ==
    /\ session # None
    /\ session_id(session[1]) # None
    /\ has_csrf_token(session[1])
    /\ \E t \in Tasks : result[t].kind = "drop" /\ result[t].value
    /\ \E a, b \in CtxIds : Record(session, a) = None /\ Record(session, b) # None

\* ---- the session type header

\* C34: every request that is with the transport carries the header
\* x-sap-adt-sessiontype with exactly one value: "stateful" when it was sent
\* for a stateful call, "stateless" when it was sent for a stateless one.
C34_SessionTypeHeader ==
    \A t \in Tasks :
        req[t] # NoRequest =>
            req[t].sessiontype = (IF op[t].kind \in {"stateful", "stateful_query"}
                                  THEN "stateful" ELSE "stateless")

\* ---- a stateful query without cookies

\* task t builds the request of a stateful query whose id has a Context while
\* the jar is empty
BuildsWithoutCookies(t) ==
    /\ StatefulBuild(t)
    /\ cj = <<>>
    /\ contextMap[op[t].ctx] # None

\* the query of task t returns CookiesMissing in this step: nothing goes to the
\* transport and the jar is left unlocked
FailsCookiesMissing(t) ==
    /\ pc'[t] = "idle"
    /\ result'[t].outcome = "cookies_missing"
    /\ sent' = sent
    /\ req'[t] = NoRequest
    /\ sessLock' = 0

\* C35: a stateful query on an id that has a Context, built while the jar is
\* empty (no Cookie header), returns CookiesMissing without handing anything to
\* the transport, and leaves the jar unlocked.
C35_CookiesMissingBeforeSend ==
    [][\A t \in Tasks : BuildsWithoutCookies(t) => FailsCookiesMissing(t)]_vars

\* C35 (amended): such a query returns CookiesMissing without handing its
\* request to the transport and leaves the jar unlocked, if its method is GET
\* or a CSRF token is known; if not, the GET that obtains the token goes out
\* first, with the credentials and under the jar's lock.
C35_CookiesMissingBeforeRequest ==
    [][\A t \in Tasks :
          BuildsWithoutCookies(t) =>
              IF must_first_get(csrfToken, op[t].method)
              THEN /\ pc'[t] = "q_pre_wait"
                   /\ sent' = sent + 1
                   /\ req'[t].method = "GET"
                   /\ req'[t].auth
                   /\ sessLock' = t
              ELSE FailsCookiesMissing(t)
      ]_vars

\* a query has returned CookiesMissing; the jar is empty and unlocked and the
\* Context it was made for is still there
C35_Witness ==
    /\ cj = <<>>
    /\ sessLock = 0
    /\ \E t \in Tasks : result[t].outcome = "cookies_missing"
    /\ \E c \in CtxIds : contextMap[c] # None

\* ---- locks

\* C36: the init guard is never taken by a call that holds the session lock
\* (the session lock is taken after the init guard, the context map is
\* reached only through the locked session), a lock is held only by a call
\* that is under way, and every call that was made returns, whatever the
\* other callers do: time and again no call is left waiting.
C36_DeadlockFreedom ==
    /\ [][\A t \in Tasks : AcquireGuard(t) => sessLock # t]_vars
    /\ [](\A t \in Tasks :
              /\ initGuard = t =>
                    pc[t] \in {"recheck", "check", "prefetch", "prefetch_wait", "send", "wait"}
              /\ sessLock = t => pc[t] = "drop_wait")
    /\ []<>AllReturned

\* a dispatch that holds the init guard has to wait for the session lock, which
\* a drop_context holds while its request is with the transport
C36_Witness ==
    \E t, u \in Tasks :
        /\ pc[t] = "drop_wait"
        /\ sessLock = t
        /\ pc[u] \in {"recheck", "check", "prefetch", "send"}

\* ---- the CSRF token of the session

\* C37: a session that knows a CSRF token knows one after every merge; a
\* response without x-csrf-token header leaves the token as it was, a
\* response with the header makes the header's value the token.
C37_TokenStaysKnown ==
    [][ /\ (session # None /\ has_csrf_token(session[1])) =>
              (session' # None /\ has_csrf_token(session'[1]))
        /\ \A h \in MergedHeaders, ctx \in MergedFor :
              MergeUpdate(h, ctx) =>
                  session'[1].csrf_token =
                      (IF h.csrf = None THEN session[1].csrf_token ELSE h.csrf)
      ]_vars

\* ---- a drop whose request fails

\* the request of the drop_context of task t fails in the transport in this step
DropFails(t) == AnswerDrop(t, TransportFailure)

\* C38: when the request of drop_context fails in the transport, the call
\* returns the DispatchError, the record it removed stays removed, the rest
\* of the session is as the drop left it and the session lock is free again;
\* a drop_context of an id without record returns false and sends nothing.
C38_DropFailure ==
    [][\A t \in Tasks :
          /\ DropFails(t) =>
                /\ pc'[t] = "idle"
                /\ result'[t].kind = "drop"
                /\ result'[t].outcome = "dispatch_error"
                /\ ~result'[t].value
                /\ session' = session
                /\ ~holds_record(session', op[t].ctx)
                /\ sessLock = t
                /\ sessLock' = 0
          /\ \A id \in CtxIds :
                (Drop(t, id) /\ ~holds_record(session, id)) =>
                    /\ result'[t].kind = "drop"
                    /\ result'[t].outcome = "ok"
                    /\ ~result'[t].value
                    /\ pc'[t] = "idle"
                    /\ sent' = sent
                    /\ sessLock' = 0
      ]_vars

\* the caller whose drop_context failed in the transport has since sent the
\* request of a dispatch: the session lock did not stay behind
C38_Witness ==
    \E t \in Tasks :
        /\ result[t].kind = "drop"
        /\ result[t].outcome = "dispatch_error"
        /\ pc[t] = "wait"
        /\ sessLock = 0

\* ---- the width of the counter

\* the u32 a is below the u32 b
Less(a, b) == a.hi < b.hi \/ (a.hi = b.hi /\ a.lo < b.lo)

\* what the reservation of this step returned
Returned32 == issued'[Len(issued')]

====
